---- MODULE Spec2Model ----
(***************************************************************************)
(* A model of deep-agents-ui: the human-in-the-loop question queue (the    *)
(* useQuestions hook) with the resume notification that answerQuestion     *)
(* defers with setTimeout; the chat session (the useChat hook) with the    *)
(* per-thread logs of sub-agent messages that its stream event handlers    *)
(* fill and the calls its operations make; and the tool calls that         *)
(* ChatMessage reconstructs from those logs.                               *)
(***************************************************************************)
EXTENDS Integers, Sequences, FiniteSets, TLC

\* ------------------------------------------------------------------------
\* Bounds of the model
\* ------------------------------------------------------------------------

\* Largest number of questions the set is allowed to hold.
MaxQuestions == 2

\* Largest number of items in one interrupt payload.
MaxBatch == 2

\* Number of ids uuidv4() can hand out.
MaxUuid == 1

\* Largest number of resume notifications waiting in the timer queue.
MaxTimers == 1

\* ------------------------------------------------------------------------
\* Values
\* ------------------------------------------------------------------------

\* QuestionPriority
Priorities == {"blocking", "high", "medium", "nice_to_have"}

\* QuestionStatus
Statuses == {"pending", "answered", "skipped"}

\* The value of an optional string field that is not set.
Undefined == "<undefined>"

\* The value of an optional Date field that is not set.
NoDate == "<no date>"

\* The values new Date() returns: instants are not told apart.
Dates == {"now"}

\* Ids the backend puts on the questions of an interrupt payload.
BackendIds == {"a"}

\* The ids uuidv4() returns, in the order it returns them.
UuidName == <<"u1", "u2", "u3", "u4", "u5", "u6">>

\* Every id a caller can name.
Ids == BackendIds \cup {UuidName[i] : i \in 1..MaxUuid}

\* Answer strings a caller can pass, the empty string included.
Answers == {"", "x"}

\* Priorities an input can carry; Undefined stands for an absent field.
PriorityInputs == {"blocking", Undefined}

VARIABLES
    questions,          \* useState<Question[]>: the question set
    uuidCount,          \* how many ids uuidv4() has handed out
    timers              \* setTimeout queue: the answers of each deferred resume

vars == <<questions, uuidCount, timers>>

\* ------------------------------------------------------------------------
\* Helpers
\* ------------------------------------------------------------------------

\* a || b on strings: the empty string and undefined are falsy.
OrElse(a, b) == IF a = "" \/ a = Undefined THEN b ELSE a

\* uuidv4(): the n-th id it hands out, different from all earlier ones.
uuidv4(n) == UuidName[n]

\* q.answer as a condition: undefined and the empty string are falsy.
Truthy(answer) == answer # Undefined /\ answer # ""

\* The reduce of answerQuestion and getAllAnswers: an object keyed by id,
\* a later element overwriting an earlier one with the same id.
ReduceAnswers(f) ==
    [id \in {f[i].id : i \in 1..Len(f)} |->
        f[CHOOSE i \in 1..Len(f) :
            /\ f[i].id = id
            /\ \A j \in 1..Len(f) : f[j].id = id => j <= i].answer]

\* ------------------------------------------------------------------------
\* Derived state
\* ------------------------------------------------------------------------

IsPending(q) == q.status = "pending"

IsBlocking(q) == q.priority = "blocking"

IsAnsweredOrSkipped(q) == q.status = "answered" \/ q.status = "skipped"

IsPendingBlocking(q) == q.priority = "blocking" /\ q.status = "pending"

IsAnsweredWithAnswer(q) == q.status = "answered" /\ Truthy(q.answer)

pendingQuestions == SelectSeq(questions, IsPending)

answeredQuestions == SelectSeq(questions, IsAnsweredOrSkipped)

hasBlockingQuestions == \E i \in 1..Len(pendingQuestions) : IsBlocking(pendingQuestions[i])

blockingCount == Len(SelectSeq(pendingQuestions, IsBlocking))

pendingCount == Len(pendingQuestions)

getUnansweredBlockingQuestions == SelectSeq(questions, IsPendingBlocking)

\* getAllAnswers as it would be if it forgot the status of a question.
getAllAnswersAnyStatus ==
    LET HasAnswer(q) == Truthy(q.answer)
    IN  ReduceAnswers(SelectSeq(questions, HasAnswer))

getAllAnswers == ReduceAnswers(SelectSeq(questions, IsAnsweredWithAnswer))

\* canProceed as it would be if it forgot the status of a question.
canProceedIgnoringStatus == ~(\E i \in 1..Len(questions) : IsBlocking(questions[i]))

canProceed == ~(\E i \in 1..Len(questions) : IsPendingBlocking(questions[i]))

\* ------------------------------------------------------------------------
\* Operations
\* ------------------------------------------------------------------------

\* The Question object addQuestion and addQuestionsFromInterrupt build.
NewQuestion(id, priority) ==
    [id |-> id,
     priority |-> OrElse(priority, "medium"),
     status |-> "pending",
     answer |-> Undefined,
     answeredAt |-> NoDate]

\* addQuestion(text, opts): a fresh id, status pending, appended.
addQuestion(priority) ==
    /\ Len(questions) < MaxQuestions
    /\ uuidCount < MaxUuid
    /\ uuidCount' = uuidCount + 1
    /\ questions' = Append(questions, NewQuestion(uuidv4(uuidCount + 1), priority))
    /\ UNCHANGED timers

\* The ids the items of a payload get, n ids having been handed out before:
\* q.id || uuidv4(), left to right.
RECURSIVE BatchIds(_, _)
BatchIds(items, n) ==
    IF items = << >> THEN << >>
    ELSE IF Head(items).id = "" \/ Head(items).id = Undefined
         THEN <<uuidv4(n + 1)>> \o BatchIds(Tail(items), n + 1)
         ELSE <<Head(items).id>> \o BatchIds(Tail(items), n)

\* How many items of a payload carry no id.
Missing(items) == Cardinality({i \in 1..Len(items) : items[i].id = "" \/ items[i].id = Undefined})

\* data.questions.map(...): the new Question objects of a payload.
NewQuestions(items, n) ==
    [i \in 1..Len(items) |-> NewQuestion(BatchIds(items, n)[i], items[i].priority)]

\* A variant of the updater that replaces a question of prev by the new
\* question with the same id.
AppendReplacing(prev, newQuestions) ==
    LET existingIds == {prev[i].id : i \in 1..Len(prev)}
        NotExisting(q) == q.id \notin existingIds
        Same(i) == {k \in 1..Len(newQuestions) : newQuestions[k].id = prev[i].id}
    IN  [i \in 1..Len(prev) |->
            IF Same(i) = {} THEN prev[i] ELSE newQuestions[CHOOSE k \in Same(i) : TRUE]]
        \o SelectSeq(newQuestions, NotExisting)

\* The updater of addQuestionsFromInterrupt: drop the new questions whose id
\* is the id of a question of prev, append the rest.
AppendUnique(prev, newQuestions) ==
    LET existingIds == {prev[i].id : i \in 1..Len(prev)}
        NotExisting(q) == q.id \notin existingIds
    IN  prev \o SelectSeq(newQuestions, NotExisting)

\* addQuestionsFromInterrupt(data)
addQuestionsFromInterrupt(data) ==
    IF ~data.isArray
    THEN UNCHANGED <<questions, uuidCount, timers>>
    ELSE /\ uuidCount + Missing(data.questions) <= MaxUuid
         /\ Len(AppendUnique(questions, NewQuestions(data.questions, uuidCount))) <= MaxQuestions
         /\ uuidCount' = uuidCount + Missing(data.questions)
         /\ questions' = AppendUnique(questions, NewQuestions(data.questions, uuidCount))
         /\ UNCHANGED timers

\* The first updater of answerQuestion: every question with the id becomes
\* answered, with the answer and the date.
MarkAnswered(prev, questionId, answer, date) ==
    [i \in 1..Len(prev) |->
        IF prev[i].id = questionId
        THEN [prev[i] EXCEPT !.status = "answered", !.answer = answer, !.answeredAt = date]
        ELSE prev[i]]

\* The test of the second updater as it would be if it did not look at the
\* blocking questions.
ShouldResumeAlways(prev, options) == options.onResumeWithAnswers

\* stillBlocking.length === 0 && onResumeWithAnswers
ShouldResume(prev, options) ==
    /\ Len(SelectSeq(prev, IsPendingBlocking)) = 0
    /\ options.onResumeWithAnswers

\* ResumeAnswers as it would be if it forgot the status of a question.
ResumeAnswersAnyStatus(prev) ==
    LET HasAnswer(q) == Truthy(q.answer)
    IN  ReduceAnswers(SelectSeq(prev, HasAnswer))

\* The answers record the second updater of answerQuestion builds.
ResumeAnswers(prev) == ReduceAnswers(SelectSeq(prev, IsAnsweredWithAnswer))

\* The second updater of answerQuestion: setTimeout(() => onResumeWithAnswers(answers), 0)
ScheduleResume(prev, options, queue) ==
    IF ShouldResume(prev, options) THEN Append(queue, ResumeAnswers(prev)) ELSE queue

\* answerQuestion(questionId, answer)
answerQuestion(questionId, answer, date, options) ==
    /\ Len(timers) < MaxTimers
    /\ questions' = MarkAnswered(questions, questionId, answer, date)
    /\ timers' = ScheduleResume(MarkAnswered(questions, questionId, answer, date), options, timers)
    /\ UNCHANGED uuidCount

\* The updater of skipQuestion as it would be if a skipped question left
\* the set.
DropSkipped(prev, questionId, date) ==
    LET Other(q) == q.id # questionId
    IN  SelectSeq(prev, Other)

\* The updater of skipQuestion: every question with the id becomes skipped,
\* with the date; its other fields are kept.
MarkSkipped(prev, questionId, date) ==
    [i \in 1..Len(prev) |->
        IF prev[i].id = questionId
        THEN [prev[i] EXCEPT !.status = "skipped", !.answeredAt = date]
        ELSE prev[i]]

\* skipQuestion as it would be if it checked the blocking questions the way
\* answerQuestion does.
skipQuestionThenResume(questionId, date) ==
    /\ Len(timers) < MaxTimers
    /\ questions' = MarkSkipped(questions, questionId, date)
    /\ timers' = ScheduleResume(MarkSkipped(questions, questionId, date),
                                [onResumeWithAnswers |-> TRUE], timers)
    /\ UNCHANGED uuidCount

\* skipQuestion(questionId)
skipQuestion(questionId, date) ==
    /\ questions' = MarkSkipped(questions, questionId, date)
    /\ UNCHANGED <<uuidCount, timers>>

\* A variant of the filter that drops the answered questions only.
KeepUnanswered(prev) ==
    LET IsUnanswered(q) == q.status # "answered"
    IN  SelectSeq(prev, IsUnanswered)

\* The updater of clearAnswered.
KeepPending(prev) == SelectSeq(prev, IsPending)

\* clearAnswered()
clearAnswered ==
    /\ questions' = KeepPending(questions)
    /\ UNCHANGED <<uuidCount, timers>>

\* reset()
reset ==
    /\ questions' = << >>
    /\ UNCHANGED <<uuidCount, timers>>

\* The timer set by answerQuestion fires: onResumeWithAnswers(answers).
DeliverResume ==
    /\ timers # << >>
    /\ timers' = Tail(timers)
    /\ UNCHANGED <<questions, uuidCount>>

\* ------------------------------------------------------------------------
\* Inputs
\* ------------------------------------------------------------------------

\* The options of the render a call comes from: each callback is optional.
Options == [onResumeWithAnswers : BOOLEAN]

\* One item of an interrupt payload: the id may be absent.
Items == [id : BackendIds \cup {Undefined}, priority : PriorityInputs]

\* The payloads of addQuestionsFromInterrupt: data.questions is an array of
\* at most MaxBatch items, or is not an array.
Payloads ==
    {[isArray |-> FALSE, questions |-> << >>]}
    \cup {[isArray |-> TRUE, questions |-> s] :
            s \in UNION {[1..n -> Items] : n \in 0..MaxBatch}}

\* ------------------------------------------------------------------------
\* useChat: values
\* ------------------------------------------------------------------------

\* Largest number of messages the logs of all threads hold together.
MaxStored == 2

\* Largest reading of Date.now().
MaxNow == 1

\* The threadId of a chat that has no thread yet.
Null == "<null>"

\* Thread ids the URL or the backend can name.
ThreadIds == {"t1"}

\* An assistant message that requests the tool calls tc1 and tc2.
AiMessage ==
    [ id |-> "m1", type |-> "ai", content |-> [kind |-> "none", text |-> ""],
      tool_call_id |-> "",
      tool_calls |-> << [id |-> "tc1", name |-> "task", args |-> "args"],
                        [id |-> "tc2", name |-> "", args |-> Undefined] >> ]

\* The result of tool call tc1.
ToolMessage ==
    [ id |-> "m2", type |-> "tool", content |-> [kind |-> "string", text |-> "result"],
      tool_call_id |-> "tc1", tool_calls |-> << >> ]

\* A message with the id of ToolMessage and another content.
ToolMessageAgain ==
    [ToolMessage EXCEPT !.content = [kind |-> "string", text |-> "other"]]

\* The result of tool call tc2, sent without an id.
ToolMessageNoId ==
    [ id |-> "", type |-> "tool", content |-> [kind |-> "blocks", text |-> "block"],
      tool_call_id |-> "tc2", tool_calls |-> << >> ]

\* An object that is not a message (a debug payload of another type).
NoMessage ==
    [ id |-> "", type |-> "task", content |-> [kind |-> "none", text |-> ""],
      tool_call_id |-> "", tool_calls |-> << >> ]

\* An optional array field of an event: not set, or an array of messages.
NoArray == [defined |-> FALSE, items |-> << >>]

ArrayOf(items) == [defined |-> TRUE, items |-> items]

\* updateData.model?.messages
ModelArrays == { NoArray, ArrayOf(<< >>), ArrayOf(<<AiMessage, ToolMessage>>) }

\* updateData.messages
MessagesArrays ==
    { NoArray, ArrayOf(<<ToolMessageAgain>>), ArrayOf(<<ToolMessageNoId, ToolMessageNoId>>) }

\* payload.messages of a debug event
PayloadArrays == { NoArray, ArrayOf(<<AiMessage, ToolMessage>>) }

\* payload.input.messages of a debug event
InputArrays == { NoArray, ArrayOf(<<ToolMessageAgain>>) }

\* A namespace segment: the string "tools:" \o rest when tools, else rest.
Segment(tools, rest) == [tools |-> tools, rest |-> rest]

\* options.namespace: not set, or a list of segments.
NoNamespace == [defined |-> FALSE, segments |-> << >>]

Namespaces ==
    { NoNamespace,
      [defined |-> TRUE, segments |-> << >>],
      [defined |-> TRUE, segments |-> <<Segment(TRUE, "abc")>>],
      [defined |-> TRUE, segments |-> <<Segment(TRUE, "")>>],
      [defined |-> TRUE, segments |-> <<Segment(TRUE, "abc"), Segment(TRUE, "xyz")>>] }

\* The data of an "updates" event.
UpdateData == [model : ModelArrays, messages : MessagesArrays]

\* The data of a "debug" event: the payload itself, its messages and the
\* messages of its input.
DebugData ==
    [ payload : {NoMessage, ToolMessage, ToolMessageNoId},
      messages : PayloadArrays,
      input : InputArrays ]

\* ------------------------------------------------------------------------
\* useChat: state
\* ------------------------------------------------------------------------

VARIABLES
    threadId,                    \* the thread id of the URL, or Null
    subagentMessagesByThread,    \* thread key -> tool call id -> message log
    subagentMessageIdsByThread,  \* thread key -> set of message ids seen
    now,                         \* the reading of Date.now()
    calls                        \* the outbound calls of the last handler

chatVars ==
    <<threadId, subagentMessagesByThread, subagentMessageIdsByThread, now, calls>>

\* QuestionCard: the props and the state of one card.
VARIABLES
    question,          \* the question prop: its id, options and status
    expanded,          \* useState(!compact)
    answerText,        \* useState(""): the text of the textarea
    selectedOption,    \* useState(null): the id of the selected option
    cardCalls          \* the callbacks the last handler of the card invoked

cardVars == <<question, expanded, answerText, selectedOption, cardCalls>>

\* useQuestions: the callbacks of its options.
VARIABLES
    callbacks          \* the callbacks the last operation of useQuestions invoked

allVars == <<questions, uuidCount, timers, threadId, subagentMessagesByThread,
             subagentMessageIdsByThread, now, calls,
             question, expanded, answerText, selectedOption, cardCalls, callbacks>>

\* A function with an empty domain: a Map with no entry.
EmptyMap == [k \in {} |-> {}]

\* threadId ?? "__new__"
ThreadKey(id) == IF id = Null THEN "__new__" ELSE id

\* useChat as it would be if every thread used the structures of "__new__".
sharedThreadId == "__new__"

currentThreadId == ThreadKey(threadId)

\* The per-thread structures, created on the render that first sees a thread.
WithThread(byThread, thread, empty) ==
    IF thread \in DOMAIN byThread THEN byThread ELSE byThread @@ (thread :> empty)

subagentMessageIds == subagentMessageIdsByThread[currentThreadId]

subagentMessages == subagentMessagesByThread[currentThreadId]

\* ------------------------------------------------------------------------
\* useChat: the stream event handlers
\* ------------------------------------------------------------------------

\* A variant of the extraction that keeps the whole segment as the key.
wholeSegment(namespaceStr) == namespaceStr

\* namespaceStr.match(/^tools:(.+)$/): the rest of the segment, or the
\* segment as it is when it does not match.
toolCallId(namespaceStr) ==
    IF namespaceStr.tools /\ namespaceStr.rest # ""
    THEN Segment(FALSE, namespaceStr.rest)
    ELSE namespaceStr

\* A message id the backend sent.
GivenId(id) == [src |-> "given", id |-> id, toolCallId |-> Segment(FALSE, ""), idx |-> 0, at |-> 0]

\* `${toolCallId}-msg-${idx}-${Date.now()}`, with the prefix of its handler.
SynthesizedId(src, tcId, idx, at) ==
    [src |-> src, id |-> "", toolCallId |-> tcId, idx |-> idx, at |-> at]

\* msg.id || synthesized
MsgId(msg, synthesized) == IF msg.id # "" THEN GivenId(msg.id) ELSE synthesized

\* The push as it would be without the search for the id.
PushAlways(existing, msg, msgId) == Append(existing, [msg EXCEPT !.id = msgId])

\* The push as it would be if a redelivered id replaced the stored message.
PushOrReplace(existing, msg, msgId) ==
    IF \E i \in 1..Len(existing) : existing[i].id = msgId
    THEN [i \in 1..Len(existing) |->
             IF existing[i].id = msgId THEN [msg EXCEPT !.id = msgId] ELSE existing[i]]
    ELSE Append(existing, [msg EXCEPT !.id = msgId])

\* if (!existing.find(m => m.id === msgId)) existing.push({...msg, id: msgId})
PushUnique(existing, msg, msgId) ==
    IF \E i \in 1..Len(existing) : existing[i].id = msgId
    THEN existing
    ELSE Append(existing, [msg EXCEPT !.id = msgId])

\* The iteration as it would be if every message went to one shared log.
TrackInOneLog(store, tcId, msg, msgId) ==
    LET shared == Segment(FALSE, "")
        existing == IF shared \in DOMAIN store.messages
                    THEN store.messages[shared] ELSE << >>
        pushed == Append(existing, [msg EXCEPT !.id = msgId])
    IN  [ ids |-> store.ids \cup {msgId},
          messages |-> [k \in DOMAIN store.messages \cup {shared} |->
                           IF k = shared THEN pushed ELSE store.messages[k]] ]

\* The iteration as it would be without the record of the id.
TrackUnseen(store, tcId, msg, msgId) ==
    LET existing == IF tcId \in DOMAIN store.messages
                    THEN store.messages[tcId] ELSE << >>
        pushed == PushUnique(existing, msg, msgId)
    IN  [ ids |-> store.ids,
          messages |-> [k \in DOMAIN store.messages \cup {tcId} |->
                           IF k = tcId THEN pushed ELSE store.messages[k]] ]

\* One iteration of the forEach over a message array: the id joins the
\* seen set, the log of the tool call is created when missing, and the
\* message is pushed unless its id is in the log.
Track(store, tcId, msg, msgId) ==
    LET existing == IF tcId \in DOMAIN store.messages
                    THEN store.messages[tcId] ELSE << >>
        pushed == PushUnique(existing, msg, msgId)
    IN  [ ids |-> store.ids \cup {msgId},
          messages |-> [k \in DOMAIN store.messages \cup {tcId} |->
                           IF k = tcId THEN pushed ELSE store.messages[k]] ]

\* messages.forEach((msg, idx) => ...), from index idx (1-based here,
\* the id carries the 0-based index of the code).
RECURSIVE TrackAll(_, _, _, _, _, _)
TrackAll(store, tcId, src, messages, idx, at) ==
    IF idx > Len(messages)
    THEN store
    ELSE TrackAll(Track(store, tcId, messages[idx],
                        MsgId(messages[idx], SynthesizedId(src, tcId, idx - 1, at))),
                  tcId, src, messages, idx + 1, at)

\* A variant of the extraction that prefers the top-level field.
UpdateMessagesTopFirst(updateData) ==
    IF updateData.messages.defined THEN updateData.messages ELSE updateData.model

\* updateData.model?.messages || updateData.messages
UpdateMessages(updateData) ==
    IF updateData.model.defined THEN updateData.model ELSE updateData.messages

\* The handler as it would be without the test of the namespace.
AfterUpdateEventAnyNamespace(store, updateData, namespace, at) ==
    LET tcId == IF namespace.defined /\ Len(namespace.segments) > 0
                THEN toolCallId(namespace.segments[1])
                ELSE Segment(FALSE, "")
        messages == UpdateMessages(updateData)
    IN  IF messages.defined
        THEN TrackAll(store, tcId, "msg", messages.items, 1, at)
        ELSE store

\* The store of the current thread after an "updates" event.
AfterUpdateEvent(store, updateData, namespace, at) ==
    IF namespace.defined /\ Len(namespace.segments) > 0
    THEN LET tcId == toolCallId(namespace.segments[1])
             messages == UpdateMessages(updateData)
         IN  IF messages.defined
             THEN TrackAll(store, tcId, "msg", messages.items, 1, at)
             ELSE store
    ELSE store

\* The store of the current thread after a "debug" event: payload.messages,
\* then payload.input.messages, then the payload itself when it is a tool
\* message.
AfterDebugEvent(store, debugData, namespace, at) ==
    IF namespace.defined /\ Len(namespace.segments) > 0
    THEN LET tcId == toolCallId(namespace.segments[1])
             first == IF debugData.messages.defined
                      THEN TrackAll(store, tcId, "debug-msg", debugData.messages.items, 1, at)
                      ELSE store
             second == IF debugData.input.defined
                       THEN TrackAll(first, tcId, "debug-msg", debugData.input.items, 1, at)
                       ELSE first
         IN  IF debugData.payload.type = "tool"
             THEN Track(second, tcId, debugData.payload,
                        MsgId(debugData.payload,
                              SynthesizedId("debug-tool", Segment(FALSE, ""), 0, at)))
             ELSE second
    ELSE store

currentStore == [ids |-> subagentMessageIds, messages |-> subagentMessages]

RECURSIVE SumLen(_, _)
SumLen(logs, keys) ==
    IF keys = {}
    THEN 0
    ELSE LET k == CHOOSE key \in keys : TRUE
         IN  Len(logs[k]) + SumLen(logs, keys \ {k})

\* The number of messages in the logs of every thread, with those of the
\* current thread replaced by messages.
Stored(messages) ==
    LET byThread == [subagentMessagesByThread EXCEPT ![currentThreadId] = messages]
        Count(thread) == SumLen(byThread[thread], DOMAIN byThread[thread])
        RECURSIVE Total(_)
        Total(threads) ==
            IF threads = {}
            THEN 0
            ELSE LET t == CHOOSE thread \in threads : TRUE
                 IN  Count(t) + Total(threads \ {t})
    IN  Total(DOMAIN byThread)

\* The handler writes the structures of the current thread in place.
WriteStore(store) ==
    /\ Stored(store.messages) <= MaxStored
    /\ subagentMessagesByThread' =
           [subagentMessagesByThread EXCEPT ![currentThreadId] = store.messages]
    /\ subagentMessageIdsByThread' =
           [subagentMessageIdsByThread EXCEPT ![currentThreadId] = store.ids]
    /\ calls' = << >>
    /\ UNCHANGED <<threadId, now>>

onUpdateEvent(updateData, namespace) ==
    WriteStore(AfterUpdateEvent(currentStore, updateData, namespace, now))

onDebugEvent(debugData, namespace) ==
    WriteStore(AfterDebugEvent(currentStore, debugData, namespace, now))

\* A millisecond passes.
Tick ==
    /\ now < MaxNow
    /\ now' = now + 1
    /\ calls' = << >>
    /\ UNCHANGED <<threadId, subagentMessagesByThread, subagentMessageIdsByThread>>

\* setThreadId as it would be if a switch started the thread afresh.
setThreadIdAfresh(id) ==
    /\ id # threadId
    /\ threadId' = id
    /\ subagentMessagesByThread' =
           [thread \in DOMAIN subagentMessagesByThread \cup {ThreadKey(id)} |-> EmptyMap]
    /\ subagentMessageIdsByThread' =
           [thread \in DOMAIN subagentMessageIdsByThread \cup {ThreadKey(id)} |-> {}]
    /\ calls' = << >>
    /\ UNCHANGED now

\* setThreadId, from the URL or from the stream's onThreadId, and the render
\* that follows it.
setThreadId(id) ==
    /\ id # threadId
    /\ threadId' = id
    /\ subagentMessagesByThread' =
           WithThread(subagentMessagesByThread, ThreadKey(id), EmptyMap)
    /\ subagentMessageIdsByThread' = WithThread(subagentMessageIdsByThread, ThreadKey(id), {})
    /\ calls' = << >>
    /\ UNCHANGED now

\* ------------------------------------------------------------------------
\* ChatMessage: tool calls reconstructed from the messages of the sub-agents
\* ------------------------------------------------------------------------

\* tc.name || "unknown"
UnknownName == "unknown"

\* tc.args || {}
EmptyArgs == "{}"

\* The result of a tool call that has none.
NoResult == [kind |-> Undefined, text |-> ""]

\* The pool as it would be if a card read one log only.
FlatOne(logs, keys, k) ==
    IF k > Len(keys) THEN << >> ELSE logs[keys[k]]

\* Array.from(subagentMessages.values()).flat(), with the logs in the
\* order keys of the Map.
RECURSIVE Flat(_, _, _)
Flat(logs, keys, k) ==
    IF k > Len(keys) THEN << >> ELSE logs[keys[k]] \o Flat(logs, keys, k + 1)

\* toolResults.get(id) after the first pass: the last tool message of the
\* pool with that tool_call_id, or no message.
ToolResult(pool, id) ==
    LET matching == {i \in 1..Len(pool) : /\ pool[i].type = "tool"
                                           /\ pool[i].tool_call_id # ""
                                           /\ pool[i].tool_call_id = id}
    IN  IF matching = {}
        THEN [found |-> FALSE, message |-> NoMessage]
        ELSE [found |-> TRUE,
              message |-> pool[CHOOSE i \in matching : \A j \in matching : j <= i]]

\* resultContent: a string as it is, content blocks joined, nothing when
\* there is no result.
ResultContent(toolResult) ==
    IF ~toolResult.found
    THEN NoResult
    ELSE LET content == toolResult.message.content
         IN  CASE content.kind = "string" -> content
               [] content.kind = "blocks" -> [kind |-> "joined", text |-> content.text]
               [] OTHER -> NoResult

\* The record as it would be if no result were ever looked up.
ToolCallAlwaysPending(pool, tc) ==
    [ id |-> tc.id,
      name |-> IF tc.name = "" THEN UnknownName ELSE tc.name,
      args |-> IF tc.args = Undefined THEN EmptyArgs ELSE tc.args,
      status |-> "pending",
      result |-> NoResult ]

\* The record pushed for one entry of msg.tool_calls.
ToolCall(pool, tc) ==
    LET toolResult == ToolResult(pool, tc.id)
    IN  [ id |-> tc.id,
          name |-> IF tc.name = "" THEN UnknownName ELSE tc.name,
          args |-> IF tc.args = Undefined THEN EmptyArgs ELSE tc.args,
          status |-> IF toolResult.found THEN "completed" ELSE "pending",
          result |-> ResultContent(toolResult) ]

\* The second pass: the records of the tool calls of the assistant messages
\* from position i of the pool on.
RECURSIVE ToolCallsFrom(_, _)
ToolCallsFrom(pool, i) ==
    IF i > Len(pool)
    THEN << >>
    ELSE LET msg == pool[i]
             own == IF msg.type = "ai"
                    THEN [k \in 1..Len(msg.tool_calls) |-> ToolCall(pool, msg.tool_calls[k])]
                    ELSE << >>
         IN  own \o ToolCallsFrom(pool, i + 1)

subagentToolCalls(pool) == ToolCallsFrom(pool, 1)

\* ------------------------------------------------------------------------
\* useChat: the operations of the session controller
\* ------------------------------------------------------------------------

\* recursion_limit of sendMessage and continueStream.
RecursionLimit == 100

\* activeAssistant?.config, as the options of submit carry it.
Config(recursion_limit) == [base |-> "activeAssistant.config", recursion_limit |-> recursion_limit]

\* The input of stream.submit: undefined, null, or new values.
NoInput(kind) == [kind |-> kind, messages |-> << >>]

ValuesInput(messages) == [kind |-> "values", messages |-> messages]

\* The options of stream.submit that the call does not set.
NoSubmitOptions ==
    [ optimisticValues |-> [kind |-> Undefined, messages |-> << >>],
      config |-> Config(0),
      hasConfig |-> FALSE,
      checkpoint |-> Undefined,
      streamSubgraphs |-> FALSE,
      interruptBefore |-> << >>,
      interruptAfter |-> << >>,
      command |-> [kind |-> Undefined, value |-> Undefined] ]

Submit(input, options) == [fn |-> "stream.submit", input |-> input, options |-> options]

\* onHistoryRevalidate?.(), with the callback the page passes to the hook.
onHistoryRevalidate ==
    [fn |-> "onHistoryRevalidate", input |-> NoInput(Undefined), options |-> NoSubmitOptions]

StreamStop == [fn |-> "stream.stop", input |-> NoInput(Undefined), options |-> NoSubmitOptions]

\* client.threads.updateState(threadId, { values: { files } })
UpdateState(thread, files) ==
    [ fn |-> "client.threads.updateState",
      input |-> [kind |-> "files", messages |-> << >>, thread |-> thread, files |-> files],
      options |-> NoSubmitOptions ]

\* An operation of the controller issues its calls and leaves the
\* demultiplexer state alone.
Issue(issued) ==
    /\ calls' = issued
    /\ UNCHANGED <<threadId, subagentMessagesByThread, subagentMessageIdsByThread, now>>

HumanMessage(id, content) == [id |-> id, type |-> "human", content |-> content]

\* The messages of the stream, whose messages field may not be set.
StreamValues == { NoArray, ArrayOf(<< >>), ArrayOf(<<HumanMessage("h0", "earlier")>>) }

\* The messages shown once optimisticValues is applied to the values prev:
\* [...(prev.messages ?? []), newMessage] for sendMessage, the given
\* messages for runSingleStep, those of prev when the option is not set.
ApplyOptimistic(optimisticValues, prev) ==
    CASE optimisticValues.kind = "append" -> prev.items \o optimisticValues.messages
      [] optimisticValues.kind = "replace" -> optimisticValues.messages
      [] OTHER -> prev.items

\* sendMessage as it would be if the optimistic message got an id of its own.
sendMessageTwoIds(content, n) ==
    Issue(<< Submit(ValuesInput(<<HumanMessage(uuidv4(n), content)>>),
                    [NoSubmitOptions EXCEPT
                        !.optimisticValues =
                            [kind |-> "append", messages |-> <<HumanMessage("other", content)>>],
                        !.config = Config(RecursionLimit),
                        !.hasConfig = TRUE,
                        !.streamSubgraphs = TRUE]),
             onHistoryRevalidate >>)

sendMessage(content, n) ==
    LET newMessage == HumanMessage(uuidv4(n), content)
    IN  Issue(<< Submit(ValuesInput(<<newMessage>>),
                        [NoSubmitOptions EXCEPT
                            !.optimisticValues = [kind |-> "append", messages |-> <<newMessage>>],
                            !.config = Config(RecursionLimit),
                            !.hasConfig = TRUE,
                            !.streamSubgraphs = TRUE]),
                 onHistoryRevalidate >>)

\* runSingleStep as it would be if it set both halt points on a rerun.
runSingleStepBothHalts(messages, checkpoint, isRerunningSubagent, optimisticMessages) ==
    Issue(<< Submit(NoInput(Undefined),
                    [NoSubmitOptions EXCEPT
                        !.checkpoint = checkpoint,
                        !.streamSubgraphs = TRUE,
                        !.interruptBefore = <<"tools">>,
                        !.interruptAfter = <<"tools">>]) >>)

runSingleStep(messages, checkpoint, isRerunningSubagent, optimisticMessages) ==
    IF checkpoint # Undefined
    THEN Issue(<< Submit(NoInput(Undefined),
                         [NoSubmitOptions EXCEPT
                             !.optimisticValues =
                                 IF optimisticMessages.defined
                                 THEN [kind |-> "replace", messages |-> optimisticMessages.items]
                                 ELSE NoSubmitOptions.optimisticValues,
                             !.config = Config(0),
                             !.hasConfig = TRUE,
                             !.checkpoint = checkpoint,
                             !.streamSubgraphs = TRUE,
                             !.interruptAfter =
                                 IF isRerunningSubagent THEN <<"tools">> ELSE << >>,
                             !.interruptBefore =
                                 IF isRerunningSubagent THEN << >> ELSE <<"tools">>]) >>)
    ELSE Issue(<< Submit(ValuesInput(messages),
                         [NoSubmitOptions EXCEPT
                             !.config = Config(0),
                             !.hasConfig = TRUE,
                             !.interruptBefore = <<"tools">>,
                             !.streamSubgraphs = TRUE]) >>)

\* setFiles as it would be without the test of threadId.
setFilesAnyThread(files) == Issue(<< UpdateState(threadId, files) >>)

setFiles(files) ==
    IF threadId = Null
    THEN Issue(<< >>)
    ELSE Issue(<< UpdateState(threadId, files) >>)

\* continueStream as it would be if it always halted before the tools.
continueStreamHaltBefore(hasTaskToolCall) ==
    Issue(<< Submit(NoInput(Undefined),
                    [NoSubmitOptions EXCEPT
                        !.config = Config(RecursionLimit),
                        !.hasConfig = TRUE,
                        !.streamSubgraphs = TRUE,
                        !.interruptBefore = <<"tools">>]),
             onHistoryRevalidate >>)

continueStream(hasTaskToolCall) ==
    Issue(<< Submit(NoInput(Undefined),
                    [NoSubmitOptions EXCEPT
                        !.config = Config(RecursionLimit),
                        !.hasConfig = TRUE,
                        !.streamSubgraphs = TRUE,
                        !.interruptAfter =
                            IF hasTaskToolCall THEN <<"tools">> ELSE << >>,
                        !.interruptBefore =
                            IF hasTaskToolCall THEN << >> ELSE <<"tools">>]),
             onHistoryRevalidate >>)

markCurrentThreadAsResolved ==
    Issue(<< Submit(NoInput("null"),
                    [NoSubmitOptions EXCEPT
                        !.command = [kind |-> "goto", value |-> "__end__"]]),
             onHistoryRevalidate >>)

resumeInterrupt(value) ==
    Issue(<< Submit(NoInput("null"),
                    [NoSubmitOptions EXCEPT
                        !.command = [kind |-> "resume", value |-> value],
                        !.streamSubgraphs = TRUE]),
             onHistoryRevalidate >>)

\* stopStream as it would be if it discarded what the run had accumulated.
stopStreamDiscarding ==
    /\ calls' = << StreamStop >>
    /\ subagentMessagesByThread' =
           [subagentMessagesByThread EXCEPT ![currentThreadId] = EmptyMap]
    /\ subagentMessageIdsByThread' =
           [subagentMessageIdsByThread EXCEPT ![currentThreadId] = {}]
    /\ UNCHANGED <<threadId, now>>

stopStream == Issue(<< StreamStop >>)

\* ------------------------------------------------------------------------
\* QuestionCard
\* ------------------------------------------------------------------------

\* The options a question can carry: none, an empty list, a list of one.
CardOptions == { NoArray, ArrayOf(<< >>), ArrayOf(<<[id |-> "o1"]>>) }

\* The texts a user can leave in the textarea.
Texts == {"", " ", "x"}

\* The keys a user can press in the textarea.
Keys == {"Enter", "x"}

\* The ids of the questions a card can show.
CardIds == {"a", "b"}

\* A question as the panel hands it to a card.
CardQuestion(id, options, status) == [id |-> id, options |-> options, status |-> status]

\* A string or null as a condition: null and the empty string are falsy.
IsTruthy(value) == value # Null /\ value # ""

\* question.options as a condition: every array is truthy, the empty one too.
HasOptions == question.options.defined

\* answerText.trim(): a text of white space only becomes the empty string.
Trim(text) == IF text = " " THEN "" ELSE text

OnAnswer(questionId, answer) == [callback |-> "onAnswer", id |-> questionId, answer |-> answer]

OnSkip(questionId) == [callback |-> "onSkip", id |-> questionId]

\* No card is mounted.
CardIdle ==
    /\ question = CardQuestion("a", NoArray, "pending")
    /\ expanded = FALSE
    /\ answerText = ""
    /\ selectedOption = Null
    /\ cardCalls = << >>

\* The first render of a card for a pending question.
FirstRender ==
    /\ question \in {CardQuestion("a", options, "pending") : options \in CardOptions}
    /\ expanded \in BOOLEAN
    /\ answerText = ""
    /\ selectedOption = Null
    /\ cardCalls = << >>

isAnswered == question.status = "answered"

isSkipped == question.status = "skipped"

\* The answer section is rendered.
AnswerSection == expanded /\ ~isAnswered /\ ~isSkipped

\* The option buttons are rendered in the answer section, the textarea
\* otherwise.
OptionButtons == HasOptions /\ Len(question.options.items) > 0

\* The panel renders the card again with its next current question; the
\* state of the card is kept.
Render(id, options) ==
    /\ question' = CardQuestion(id, options, "pending")
    /\ cardCalls' = << >>
    /\ UNCHANGED <<expanded, answerText, selectedOption>>

\* The click on the header of the card.
ToggleExpanded ==
    /\ expanded' = ~expanded
    /\ cardCalls' = << >>
    /\ UNCHANGED <<question, answerText, selectedOption>>

\* The click on the button of an option.
ClickOption(option) ==
    /\ AnswerSection /\ OptionButtons
    /\ selectedOption' = option.id
    /\ cardCalls' = << >>
    /\ UNCHANGED <<question, expanded, answerText>>

\* onChange of the textarea.
ChangeText(text) ==
    /\ AnswerSection /\ ~OptionButtons
    /\ answerText' = text
    /\ cardCalls' = << >>
    /\ UNCHANGED <<question, expanded, selectedOption>>

\* A variant of handleSubmitAnswer that forwards whatever the card holds.
handleSubmitAnswerUnchecked ==
    LET answer == IF HasOptions THEN selectedOption ELSE answerText
    IN  /\ cardCalls' = << OnAnswer(question.id, answer) >>
        /\ question' = [question EXCEPT !.status = "answered"]
        /\ answerText' = ""
        /\ selectedOption' = Null
        /\ UNCHANGED expanded

\* handleSubmitAnswer; the panel passes the answer on to answerQuestion, and
\* the card is rendered again with the answered question.
handleSubmitAnswer ==
    LET answer == IF HasOptions THEN selectedOption ELSE answerText
    IN  IF IsTruthy(answer)
        THEN /\ cardCalls' = << OnAnswer(question.id, answer) >>
             /\ question' = [question EXCEPT !.status = "answered"]
             /\ answerText' = ""
             /\ selectedOption' = Null
             /\ UNCHANGED expanded
        ELSE /\ cardCalls' = << >>
             /\ UNCHANGED <<question, expanded, answerText, selectedOption>>

\* The disabled attribute of the Answer button.
AnswerDisabled ==
    IF HasOptions THEN ~IsTruthy(selectedOption)
                                  ELSE ~IsTruthy(Trim(answerText))

\* The click on the Answer button.
ClickAnswer ==
    /\ AnswerSection /\ ~AnswerDisabled
    /\ handleSubmitAnswer

\* handleKeyDown of the textarea.
handleKeyDown(key, shiftKey) ==
    /\ AnswerSection /\ ~OptionButtons
    /\ IF key = "Enter" /\ ~shiftKey
       THEN handleSubmitAnswer
       ELSE /\ cardCalls' = << >>
            /\ UNCHANGED <<question, expanded, answerText, selectedOption>>

\* handleSkip, by the Skip button; the panel passes it on to skipQuestion.
handleSkip ==
    /\ AnswerSection
    /\ cardCalls' = << OnSkip(question.id) >>
    /\ question' = [question EXCEPT !.status = "skipped"]
    /\ UNCHANGED <<expanded, answerText, selectedOption>>

\* One card and its user.
CardNext ==
    \/ (\E id \in CardIds, options \in CardOptions : Render(id, options))
          /\ UNCHANGED <<vars, chatVars, callbacks>>
    \/ ToggleExpanded /\ UNCHANGED <<vars, chatVars, callbacks>>
    \/ (\E i \in 1..Len(question.options.items) : ClickOption(question.options.items[i]))
          /\ UNCHANGED <<vars, chatVars, callbacks>>
    \/ (\E text \in Texts : ChangeText(text)) /\ UNCHANGED <<vars, chatVars, callbacks>>
    \/ ClickAnswer /\ UNCHANGED <<vars, chatVars, callbacks>>
    \/ (\E key \in Keys, shiftKey \in BOOLEAN : handleKeyDown(key, shiftKey))
          /\ UNCHANGED <<vars, chatVars, callbacks>>
    \/ handleSkip /\ UNCHANGED <<vars, chatVars, callbacks>>

\* ------------------------------------------------------------------------
\* QuestionsPanel
\* ------------------------------------------------------------------------

\* Confidences of the questions of a panel, in hundredths.
Confidences == {20, 50}

\* A pending question as the panel receives it.
PanelQuestion(id, priority, confidence) ==
    [id |-> id, priority |-> priority, confidence |-> confidence,
     status |-> "pending", answer |-> Undefined, answeredAt |-> NoDate]

\* The questions prop: at most MaxQuestions pending questions, the first
\* with the id of the backend.
PanelLists ==
    LET PanelId(i) == IF i = 1 THEN "a" ELSE UuidName[i - 1]
    IN
    UNION {{[i \in 1..n |-> PanelQuestion(PanelId(i), priority[i], confidence[i])]
               : priority \in [1..n -> Priorities], confidence \in [1..n -> Confidences]}
              : n \in 0..MaxQuestions}

\* currentQuestion when there is no pending question.
NullQuestion == PanelQuestion(Null, "medium", 0)

priorityOrder == [blocking |-> 0, high |-> 1, medium |-> 2, nice_to_have |-> 3]

\* A variant of the comparator that looks at the confidence first.
CompareConfidenceFirst(a, b) ==
    IF a.confidence - b.confidence # 0
    THEN a.confidence - b.confidence
    ELSE priorityOrder[a.priority] - priorityOrder[b.priority]

\* The comparator of the sort: the difference of the priority ranks, and of
\* the confidences when the ranks are equal.
Compare(a, b) ==
    LET priorityDiff == priorityOrder[a.priority] - priorityOrder[b.priority]
    IN  IF priorityDiff # 0 THEN priorityDiff ELSE a.confidence - b.confidence

\* q put into a sorted list, behind the elements that do not come after it.
RECURSIVE InsertSorted(_, _)
InsertSorted(sorted, q) ==
    IF sorted = << >> THEN <<q>>
    ELSE IF Compare(Head(sorted), q) <= 0
         THEN <<Head(sorted)>> \o InsertSorted(Tail(sorted), q)
         ELSE <<q>> \o sorted

\* [...qs].sort(comparator): a stable sort.
RECURSIVE Sort(_)
Sort(qs) ==
    IF qs = << >> THEN << >>
    ELSE InsertSorted(Sort(SubSeq(qs, 1, Len(qs) - 1)), qs[Len(qs)])

\* currentQuestion of the panel
currentQuestion ==
    IF Len(pendingQuestions) = 0 THEN NullQuestion ELSE Sort(pendingQuestions)[1]

\* handleAnswer, from the card of the current question
handleAnswer(answer, date) ==
    /\ currentQuestion # NullQuestion
    /\ answerQuestion(currentQuestion.id, answer, date, [onResumeWithAnswers |-> TRUE])

\* handleSkip of the panel, from the card of the current question
handleSkipCurrent(date) ==
    /\ currentQuestion # NullQuestion
    /\ skipQuestion(currentQuestion.id, date)

\* A panel, its current question answered or skipped one after another.
PanelNext ==
    \/ (\E answer \in Answers, date \in Dates : handleAnswer(answer, date))
          /\ UNCHANGED <<chatVars, cardVars, callbacks>>
    \/ (\E date \in Dates : handleSkipCurrent(date)) /\ UNCHANGED <<chatVars, cardVars, callbacks>>
    \/ DeliverResume /\ UNCHANGED <<chatVars, cardVars, callbacks>>

\* ------------------------------------------------------------------------
\* useQuestions: the operations with their callbacks
\* ------------------------------------------------------------------------

\* The options of useQuestions: each callback is optional.
CallOptions == [onAnswer : BOOLEAN, onResumeWithAnswers : BOOLEAN]

OnResume(answers) == [callback |-> "onResumeWithAnswers", answers |-> answers]

\* The callbacks of answerQuestion as they would be if the resume
\* notification were made in the call, not by a timer.
answerCallbacksResuming(questionId, answer, date, options) ==
    (IF options.onAnswer THEN << OnAnswer(questionId, answer) >> ELSE << >>)
    \o (IF ShouldResume(MarkAnswered(questions, questionId, answer, date), options)
        THEN << OnResume(ResumeAnswers(MarkAnswered(questions, questionId, answer, date))) >>
        ELSE << >>)

\* The callbacks answerQuestion invokes before it returns: onAnswer?.(...)
answerCallbacks(questionId, answer, date, options) ==
    IF options.onAnswer THEN << OnAnswer(questionId, answer) >> ELSE << >>

\* answerQuestion(questionId, answer), with its callbacks
AnswerCall(questionId, answer, date, options) ==
    /\ answerQuestion(questionId, answer, date, options)
    /\ callbacks' = answerCallbacks(questionId, answer, date, options)

\* skipQuestion(questionId): it invokes no callback
SkipCall(questionId, date) ==
    /\ skipQuestion(questionId, date)
    /\ callbacks' = << >>

\* addQuestionsFromInterrupt(data): it invokes no callback
AddFromInterruptCall(data) ==
    /\ addQuestionsFromInterrupt(data)
    /\ callbacks' = << >>

\* The timer of answerQuestion fires, in a turn of its own.
ResumeTurn ==
    /\ DeliverResume
    /\ callbacks' = << OnResume(Head(timers)) >>

CallbacksNext ==
    \/ (\E item \in Items : AddFromInterruptCall([isArray |-> TRUE, questions |-> <<item>>]))
          /\ UNCHANGED <<chatVars, cardVars>>
    \/ (\E questionId \in Ids, answer \in Answers, date \in Dates, options \in CallOptions :
          AnswerCall(questionId, answer, date, options)) /\ UNCHANGED <<chatVars, cardVars>>
    \/ (\E questionId \in Ids, date \in Dates : SkipCall(questionId, date))
          /\ UNCHANGED <<chatVars, cardVars>>
    \/ ResumeTurn /\ UNCHANGED <<chatVars, cardVars>>

\* ------------------------------------------------------------------------
\* useChat: inputs and specifications
\* ------------------------------------------------------------------------

MessageContents == {"hi", "go"}

MessageLists == { << >>, <<HumanMessage("h1", "hi")>> }

Checkpoints == {Undefined, "checkpoint"}

OptimisticMessages == { NoArray, ArrayOf(<< >>), ArrayOf(<<HumanMessage("h1", "hi")>>) }

Files == {"files"}

ResumeValues == {"value"}

\* The question queue before any question arrived.
QueueIdle ==
    /\ questions = << >>
    /\ uuidCount = 0
    /\ timers = << >>
    /\ callbacks = << >>

\* The first render of useChat: the thread of the URL, with its structures.
ChatInit ==
    /\ threadId \in ThreadIds \cup {Null}
    /\ subagentMessagesByThread = (currentThreadId :> EmptyMap)
    /\ subagentMessageIdsByThread = (currentThreadId :> {})
    /\ now = 0
    /\ calls = << >>

\* useChat with no stream event so far and no operation called.
ChatIdle ==
    /\ threadId = Null
    /\ subagentMessagesByThread = ("__new__" :> EmptyMap)
    /\ subagentMessageIdsByThread = ("__new__" :> {})
    /\ now = 0
    /\ calls = << >>

UpdateEventStep == \E updateData \in UpdateData, namespace \in Namespaces :
                       onUpdateEvent(updateData, namespace)

DebugEventStep == \E debugData \in DebugData, namespace \in Namespaces :
                      onDebugEvent(debugData, namespace)

SwitchStep == \E id \in ThreadIds \cup {Null} : setThreadId(id)

\* The demultiplexer: stream events, thread switches, the clock, and
\* operations of the controller between them.
DemuxInit == QueueIdle /\ ChatInit /\ CardIdle

DemuxNext ==
    \/ UpdateEventStep /\ UNCHANGED <<vars, cardVars, callbacks>>
    \/ DebugEventStep /\ UNCHANGED <<vars, cardVars, callbacks>>
    \/ SwitchStep /\ UNCHANGED <<vars, cardVars, callbacks>>
    \/ Tick /\ UNCHANGED <<vars, cardVars, callbacks>>
    \/ sendMessage("hi", 1) /\ UNCHANGED <<vars, cardVars, callbacks>>
    \/ stopStream /\ UNCHANGED <<vars, cardVars, callbacks>>

SpecDemux == DemuxInit /\ [][DemuxNext]_allVars

\* The subagents of a run at work: each streams, under its own tool-call id,
\* the assistant message that requests tools and the results of the tools,
\* one debug event for each, while the user switches threads.
ToolCallsNext ==
    \/ (\E payload \in {NoMessage, ToolMessage, ToolMessageNoId},
           messages \in {NoArray, ArrayOf(<<AiMessage>>)},
           first \in {Segment(TRUE, "abc"), Segment(TRUE, "xyz")} :
           onDebugEvent([payload |-> payload, messages |-> messages, input |-> NoArray],
                        [defined |-> TRUE, segments |-> <<first>>]))
          /\ UNCHANGED <<vars, cardVars, callbacks>>
    \/ SwitchStep /\ UNCHANGED <<vars, cardVars, callbacks>>
    \/ Tick /\ UNCHANGED <<vars, cardVars, callbacks>>

SpecToolCalls == DemuxInit /\ [][ToolCallsNext]_allVars

\* The session controller: its operations on any thread.
ChatNext ==
    \/ \E content \in MessageContents, n \in 1..MaxUuid :
          sendMessage(content, n) /\ UNCHANGED <<vars, cardVars, callbacks>>
    \/ \E messages \in MessageLists, checkpoint \in Checkpoints,
          isRerunningSubagent \in BOOLEAN, optimisticMessages \in OptimisticMessages :
          runSingleStep(messages, checkpoint, isRerunningSubagent, optimisticMessages)
              /\ UNCHANGED <<vars, cardVars, callbacks>>
    \/ \E files \in Files : setFiles(files) /\ UNCHANGED <<vars, cardVars, callbacks>>
    \/ \E hasTaskToolCall \in BOOLEAN : continueStream(hasTaskToolCall) /\ UNCHANGED <<vars, cardVars, callbacks>>
    \/ markCurrentThreadAsResolved /\ UNCHANGED <<vars, cardVars, callbacks>>
    \/ \E value \in ResumeValues : resumeInterrupt(value) /\ UNCHANGED <<vars, cardVars, callbacks>>
    \/ stopStream /\ UNCHANGED <<vars, cardVars, callbacks>>
    \/ SwitchStep /\ UNCHANGED <<vars, cardVars, callbacks>>
    \/ Tick /\ UNCHANGED <<vars, cardVars, callbacks>>

SpecChat == DemuxInit /\ [][ChatNext]_allVars

\* One question card, the queue and the chat idle.
CardInit == QueueIdle /\ ChatIdle /\ FirstRender

SpecCard == CardInit /\ [][CardNext]_allVars

\* The first render of a panel with its questions, nothing else running.
PanelInit ==
    /\ questions \in PanelLists
    /\ uuidCount = 0
    /\ timers = << >>
    /\ callbacks = << >>
    /\ ChatIdle
    /\ CardIdle

SpecPanel == PanelInit /\ [][PanelNext]_allVars

\* ------------------------------------------------------------------------
\* Specification
\* ------------------------------------------------------------------------

Init ==
    /\ questions = << >>
    /\ uuidCount = 0
    /\ timers = << >>
    /\ callbacks = << >>
    /\ ChatIdle
    /\ CardIdle

Next ==
    \/ (\E priority \in PriorityInputs : addQuestion(priority)) /\ UNCHANGED <<chatVars, cardVars, callbacks>>
    \/ (\E data \in Payloads : addQuestionsFromInterrupt(data)) /\ UNCHANGED <<chatVars, cardVars, callbacks>>
    \/ (\E questionId \in Ids, answer \in Answers, date \in Dates, options \in Options :
          answerQuestion(questionId, answer, date, options)) /\ UNCHANGED <<chatVars, cardVars, callbacks>>
    \/ (\E questionId \in Ids, date \in Dates : skipQuestion(questionId, date))
          /\ UNCHANGED <<chatVars, cardVars, callbacks>>
    \/ clearAnswered /\ UNCHANGED <<chatVars, cardVars, callbacks>>
    \/ reset /\ UNCHANGED <<chatVars, cardVars, callbacks>>
    \/ DeliverResume /\ UNCHANGED <<chatVars, cardVars, callbacks>>

Spec == Init /\ [][Next]_vars

\* The question queue with the callbacks of its operations.
SpecCallbacks == Init /\ [][CallbacksNext]_allVars

\* A session: the question queue and the chat side by side, with questions
\* asked and answered while stream events arrive and the run is stopped.
SessionNext ==
    \/ (\E priority \in PriorityInputs : addQuestion(priority)) /\ UNCHANGED <<chatVars, cardVars, callbacks>>
    \/ (\E questionId \in Ids, answer \in Answers, date \in Dates, options \in Options :
          answerQuestion(questionId, answer, date, options)) /\ UNCHANGED <<chatVars, cardVars, callbacks>>
    \/ DeliverResume /\ UNCHANGED <<chatVars, cardVars, callbacks>>
    \/ UpdateEventStep /\ UNCHANGED <<vars, cardVars, callbacks>>
    \/ SwitchStep /\ UNCHANGED <<vars, cardVars, callbacks>>
    \/ stopStream /\ UNCHANGED <<vars, cardVars, callbacks>>

SpecSession == Init /\ [][SessionNext]_allVars

\* ------------------------------------------------------------------------
\* Steps, as action formulas
\* ------------------------------------------------------------------------

\* The calls that are the arguments of the properties below.
AnswerStep(questionId) ==
    \E answer \in Answers, date \in Dates, options \in Options :
        answerQuestion(questionId, answer, date, options)

SkipStep(questionId) == \E date \in Dates : skipQuestion(questionId, date)

AddFromInterruptStep == \E data \in Payloads : addQuestionsFromInterrupt(data)

\* questionId names a question of the set that is pending and blocking.
PendingBlockingId(questionId) ==
    \E i \in 1..Len(questions) :
        questions[i].id = questionId /\ IsPendingBlocking(questions[i])

\* questionId names the only pending blocking questions of the set.
LastPendingBlocking(questionId) ==
    /\ PendingBlockingId(questionId)
    /\ \A i \in 1..Len(questions) :
          IsPendingBlocking(questions[i]) => questions[i].id = questionId

\* ------------------------------------------------------------------------
\* Claims
\* ------------------------------------------------------------------------

\* C1: after any sequence of addQuestion and addQuestionsFromInterrupt
\* calls no two questions of the set share an id.
C1_UniqueIds ==
    \A i, j \in 1..Len(questions) : i # j => questions[i].id # questions[j].id

\* The positions of the pending blocking questions.
PendingBlocking ==
    {i \in 1..Len(questions) :
        questions[i].status = "pending" /\ questions[i].priority = "blocking"}

\* C2: canProceed() is true iff no pending question has priority blocking,
\* hasBlockingQuestions is its negation, and blockingCount is the number of
\* pending blocking questions.
C2_CanProceedIffNoPendingBlocking ==
    /\ canProceed <=> PendingBlocking = {}
    /\ hasBlockingQuestions <=> ~canProceed
    /\ blockingCount = Cardinality(PendingBlocking)

\* C2: a blocking question is pending while another blocking one is answered.
C2_Witness ==
    /\ ~canProceed
    /\ blockingCount = 1
    /\ \E i \in 1..Len(questions) :
          questions[i].priority = "blocking" /\ questions[i].status = "answered"

\* C3: once a question is answered or skipped, no answerQuestion,
\* skipQuestion or addQuestionsFromInterrupt call changes its status.
C3_StatusOneWay ==
    [][((\E questionId \in Ids : AnswerStep(questionId))
            \/ (\E questionId \in Ids : SkipStep(questionId))
            \/ AddFromInterruptStep)
        => \A i \in 1..Len(questions) :
              questions[i].status # "pending"
                  => /\ i <= Len(questions')
                     /\ questions'[i].id = questions[i].id
                     /\ questions'[i].status = questions[i].status]_vars

\* C4: a question carries an answer iff its status is answered.
C4_AnswerIffAnswered ==
    \A i \in 1..Len(questions) :
        questions[i].answer # Undefined <=> questions[i].status = "answered"

\* C5: answerQuestion on a question that is already answered or skipped
\* changes nothing in the set.
C5_AnswerTerminalIsNoOp ==
    [][\A questionId \in Ids :
          (/\ AnswerStep(questionId)
           /\ \E i \in 1..Len(questions) :
                 questions[i].id = questionId /\ questions[i].status # "pending")
          => questions' = questions]_vars

\* The ids of the questions of qs that are answered with a non-empty answer.
AnsweredIds(qs) ==
    {qs[i].id : i \in {j \in 1..Len(qs) : qs[j].status = "answered" /\ qs[j].answer # ""}}

\* C6: answering the last pending blocking question, with a resume callback
\* registered, schedules exactly one resume notification, whose mapping
\* holds exactly the questions answered with a non-empty answer, each
\* mapped to its answer.
C6_ResumeOnceWithAnswered ==
    [][\A questionId \in Ids, answer \in Answers, date \in Dates :
          (/\ answerQuestion(questionId, answer, date, [onResumeWithAnswers |-> TRUE])
           /\ LastPendingBlocking(questionId))
          => /\ Len(timers') = Len(timers) + 1
             /\ SubSeq(timers', 1, Len(timers)) = timers
             /\ DOMAIN timers'[Len(timers')] = AnsweredIds(questions')
             /\ \A i \in 1..Len(questions') :
                   questions'[i].id \in AnsweredIds(questions')
                       => timers'[Len(timers')][questions'[i].id] = questions'[i].answer]_vars

\* C6: a resume notification is scheduled that carries the answer of an
\* answered blocking question and leaves out a skipped question.
C6_Witness ==
    \E k \in 1..Len(timers), i, j \in 1..Len(questions) :
        /\ questions[i].priority = "blocking"
        /\ questions[i].status = "answered"
        /\ questions[i].id \in DOMAIN timers[k]
        /\ timers[k][questions[i].id] = questions[i].answer
        /\ questions[j].status = "skipped"
        /\ questions[j].id \notin DOMAIN timers[k]

\* C7: answerQuestion schedules a resume notification only if, after its
\* transition, no blocking question is pending and some question is
\* answered with a non-empty answer; the mapping it schedules is not empty.
C7_ResumeOnlyWithAnswers ==
    [][\A questionId \in Ids :
          (AnswerStep(questionId) /\ Len(timers') > Len(timers))
          => /\ \A i \in 1..Len(questions') : ~IsPendingBlocking(questions'[i])
             /\ AnsweredIds(questions') # {}
             /\ DOMAIN timers'[Len(timers')] # {}]_vars

\* C8: the resume notification is never delivered while a question of the
\* set is pending with priority blocking.
C8_NoResumeWhileBlocking ==
    [][DeliverResume => PendingBlocking = {}]_vars

\* C9: skipQuestion schedules no resume notification, also when it skips the
\* last pending blocking question; only answerQuestion schedules one.
C9_SkipNeverResumes ==
    [][/\ \A questionId \in Ids : SkipStep(questionId) => timers' = timers
       /\ Len(timers') > Len(timers) => \E questionId \in Ids : AnswerStep(questionId)]_vars

\* C9: the last pending blocking question was skipped, canProceed() is true,
\* no question was answered and no resume notification is scheduled.
C9_Witness ==
    /\ canProceed
    /\ timers = << >>
    /\ \E i \in 1..Len(questions) :
          questions[i].priority = "blocking" /\ questions[i].status = "skipped"
    /\ \A i \in 1..Len(questions) : questions[i].status # "answered"

\* C10: skipping a pending question that is not blocking leaves canProceed()
\* as it was; skipping the only pending blocking question makes it true.
C10_SkipAndCanProceed ==
    [][\A questionId \in Ids :
          SkipStep(questionId)
          => /\ (\E i \in 1..Len(questions) :
                    /\ questions[i].id = questionId
                    /\ questions[i].status = "pending"
                    /\ questions[i].priority # "blocking")
                 => (canProceed' <=> canProceed)
             /\ LastPendingBlocking(questionId) => canProceed']_vars

\* C11 as claimed: the keys of getAllAnswers() are exactly the ids of the
\* questions with status answered, each mapped to its answer.
C11_AllAnswersOfAnswered ==
    /\ DOMAIN getAllAnswers =
          {questions[i].id : i \in {j \in 1..Len(questions) : questions[j].status = "answered"}}
    /\ \A i \in 1..Len(questions) :
          questions[i].status = "answered"
              => getAllAnswers[questions[i].id] = questions[i].answer

\* C11 as amended: the keys of getAllAnswers() are exactly the ids of the
\* questions with status answered and a non-empty answer, each mapped to
\* its answer; no pending or skipped question appears.
C11_AllAnswersOfAnsweredNonEmpty ==
    /\ DOMAIN getAllAnswers = AnsweredIds(questions)
    /\ \A i \in 1..Len(questions) :
          questions[i].id \in AnsweredIds(questions)
              => /\ questions[i].status = "answered"
                 /\ getAllAnswers[questions[i].id] = questions[i].answer

\* C11: one question is answered "x" and is the whole mapping, while a
\* question that was answered and then skipped is left out.
C11_Witness ==
    \E i, j \in 1..Len(questions) :
        /\ questions[i].status = "answered"
        /\ questions[i].answer = "x"
        /\ getAllAnswers = [id \in {questions[i].id} |-> "x"]
        /\ questions[j].status = "skipped"
        /\ questions[j].answer = "x"

\* ------------------------------------------------------------------------
\* Claims about the demultiplexer
\* ------------------------------------------------------------------------

\* The ids of the messages of a log.
LogIds(log) == {log[i].id : i \in 1..Len(log)}

\* The log of a tool call in a store, empty when it was never created.
LogOf(messages, tcId) == IF tcId \in DOMAIN messages THEN messages[tcId] ELSE << >>

IsPrefix(s, t) == Len(s) <= Len(t) /\ \A i \in 1..Len(s) : t[i] = s[i]

\* The namespaces that name a tool call.
Addressed == {namespace \in Namespaces : namespace.defined /\ Len(namespace.segments) > 0}

\* The messages an event delivers to the log of tcId, in the order of their
\* arrival, each with the id it is tracked under.
Arrival(msg, src, tcId, idx, at) ==
    [msg |-> msg, id |-> MsgId(msg, SynthesizedId(src, tcId, idx, at))]

ArrivalsOf(array, src, tcId, at) ==
    [i \in 1..Len(array.items) |-> Arrival(array.items[i], src, tcId, i - 1, at)]

UpdateArrivals(updateData, tcId, at) ==
    ArrivalsOf(IF updateData.model.defined THEN updateData.model ELSE updateData.messages,
               "msg", tcId, at)

DebugArrivals(debugData, tcId, at) ==
    ArrivalsOf(debugData.messages, "debug-msg", tcId, at)
        \o ArrivalsOf(debugData.input, "debug-msg", tcId, at)
        \o IF debugData.payload.type = "tool"
           THEN <<Arrival(debugData.payload, "debug-tool", Segment(FALSE, ""), 0, at)>>
           ELSE << >>

ArrivalIds(arrivals) == {arrivals[i].id : i \in 1..Len(arrivals)}

\* Every event that names a tool call, as the store after it and its arrivals.
Deliveries ==
    {[tcId |-> toolCallId(namespace.segments[1]),
      after |-> AfterUpdateEvent(currentStore, updateData, namespace, now),
      arrivals |-> UpdateArrivals(updateData, toolCallId(namespace.segments[1]), now)]
        : updateData \in UpdateData, namespace \in Addressed}
    \cup
    {[tcId |-> toolCallId(namespace.segments[1]),
      after |-> AfterDebugEvent(currentStore, debugData, namespace, now),
      arrivals |-> DebugArrivals(debugData, toolCallId(namespace.segments[1]), now)]
        : debugData \in DebugData, namespace \in Addressed}

\* The logs the store holds, as pairs of a thread and a tool call id.
Logs ==
    UNION {{<<thread, tcId>> : tcId \in DOMAIN subagentMessagesByThread[thread]}
              : thread \in DOMAIN subagentMessagesByThread}

\* C12: the message ids of one log are pairwise distinct, and an event of
\* either kind lengthens the log it names by the number of ids it delivers
\* that the log does not hold: delivering an id again, in any field of the
\* event, leaves the length of the log unchanged.
C12_DistinctIdsInLog ==
    /\ \A p \in Logs :
          LET log == subagentMessagesByThread[p[1]][p[2]]
          IN  \A i, j \in 1..Len(log) : log[i].id = log[j].id => i = j
    /\ \A d \in Deliveries :
          LET before == LogOf(subagentMessages, d.tcId)
              after == LogOf(d.after.messages, d.tcId)
          IN  Len(after) = Len(before)
                  + Cardinality(ArrivalIds(d.arrivals) \ LogIds(before))

\* C12: a log holds the message m2 before the message m1; m1 only arrives
\* right behind m2, so m2 was delivered again and the log kept one copy.
C12_Witness ==
    \E p \in Logs :
        LET log == subagentMessagesByThread[p[1]][p[2]]
        IN  /\ Len(log) = 2
            /\ log[1].id = GivenId("m2")
            /\ log[2].id = GivenId("m1")

\* An event that names the tool call X changes no log of the current thread
\* but that of X, which it extends.
C13_OnlyNamedLog ==
    \A d \in Deliveries :
        /\ DOMAIN subagentMessages \subseteq DOMAIN d.after.messages
        /\ DOMAIN d.after.messages \subseteq DOMAIN subagentMessages \cup {d.tcId}
        /\ \A tcId \in DOMAIN subagentMessages \ {d.tcId} :
              d.after.messages[tcId] = subagentMessages[tcId]
        /\ IsPrefix(LogOf(subagentMessages, d.tcId), LogOf(d.after.messages, d.tcId))

\* A step changes the logs of no thread but the current one.
C13_OnlyCurrentThread ==
    \A thread \in DOMAIN subagentMessagesByThread :
        thread # ThreadKey(threadId)
            => subagentMessagesByThread'[thread] = subagentMessagesByThread[thread]

\* C13: an event whose first namespace segment is tools:X appends only to
\* the log of X of the current thread; every other log of that thread and
\* every log of another thread is unchanged.
C13_AppendsOnlyToNamedLog == []C13_OnlyNamedLog /\ [][C13_OnlyCurrentThread]_allVars

\* C13: events that named two tool calls left the current thread with a
\* log for each.
C13_Witness ==
    /\ DOMAIN subagentMessages = {Segment(FALSE, "abc"), Segment(TRUE, "")}
    /\ \A tcId \in DOMAIN subagentMessages : Len(subagentMessages[tcId]) = 1

\* C14: no step (stream event, thread switch, submit, stopStream) removes a
\* thread, a log or a message of the store, nor moves or rewrites a message:
\* every log of the state before is a prefix of the same log after.
C14_StoreOnlyGrows ==
    [][\A thread \in DOMAIN subagentMessagesByThread :
          /\ thread \in DOMAIN subagentMessagesByThread'
          /\ \A tcId \in DOMAIN subagentMessagesByThread[thread] :
                /\ tcId \in DOMAIN subagentMessagesByThread'[thread]
                /\ IsPrefix(subagentMessagesByThread[thread][tcId],
                            subagentMessagesByThread'[thread][tcId])]_allVars

\* C14: after events on two threads and a switch between them, stopStream
\* was the last operation and both threads have their messages.
C14_Witness ==
    /\ calls = <<StreamStop>>
    /\ \E p, q \in Logs :
          /\ p[1] # q[1]
          /\ Len(subagentMessagesByThread[p[1]][p[2]]) = 1
          /\ Len(subagentMessagesByThread[q[1]][q[2]]) = 1

\* C15: a step changes the logs and the seen ids of no thread but the
\* current one, and a thread switch changes those of no thread at all, so
\* that a thread switched back to shows what it had accumulated.
C15_IsolatedPerThread ==
    [][\A thread \in DOMAIN subagentMessagesByThread :
          (thread # ThreadKey(threadId) \/ threadId' # threadId)
              => /\ thread \in DOMAIN subagentMessagesByThread'
                 /\ subagentMessagesByThread'[thread] = subagentMessagesByThread[thread]
                 /\ subagentMessageIdsByThread'[thread] = subagentMessageIdsByThread[thread]
      ]_allVars

\* C15: two threads hold different messages, and the chat is back on the
\* thread without an id.
C15_Witness ==
    /\ threadId = Null
    /\ DOMAIN subagentMessagesByThread = {"__new__", "t1"}
    /\ subagentMessagesByThread["__new__"] # EmptyMap
    /\ subagentMessagesByThread["t1"] # EmptyMap
    /\ subagentMessagesByThread["__new__"] # subagentMessagesByThread["t1"]
    /\ subagentMessageIdsByThread["__new__"] # subagentMessageIdsByThread["t1"]

\* C16: an event of either kind whose namespace is absent or empty leaves
\* the logs and the seen ids of every thread as they are.
C16_NoNamespaceNoChange ==
    \A namespace \in Namespaces \ Addressed :
        /\ \A updateData \in UpdateData :
              AfterUpdateEvent(currentStore, updateData, namespace, now) = currentStore
        /\ \A debugData \in DebugData :
              AfterDebugEvent(currentStore, debugData, namespace, now) = currentStore

\* C16: the current thread has messages, and events with an absent and with
\* an empty namespace are among those that arrive.
C16_Witness ==
    /\ subagentMessageIds # {}
    /\ subagentMessages # EmptyMap
    /\ NoNamespace \in Namespaces \ Addressed
    /\ [defined |-> TRUE, segments |-> << >>] \in Namespaces \ Addressed

\* The place of the first arrival of an id in an event.
FirstArrival(arrivals, id) ==
    CHOOSE p \in 1..Len(arrivals) :
        /\ arrivals[p].id = id
        /\ \A q \in 1..(p - 1) : arrivals[q].id # id

\* C17: an event keeps the messages of the log it names where they are and
\* as they are, and appends the messages whose id is new to the log in the
\* order of their first arrival, each with the content of its first arrival.
C17_FirstArrivalOrder ==
    \A d \in Deliveries :
        LET before == LogOf(subagentMessages, d.tcId)
            after == LogOf(d.after.messages, d.tcId)
            added == (Len(before) + 1)..Len(after)
        IN  /\ IsPrefix(before, after)
            /\ \A i \in added :
                  /\ after[i].id \in ArrivalIds(d.arrivals)
                  /\ after[i] = [d.arrivals[FirstArrival(d.arrivals, after[i].id)].msg
                                   EXCEPT !.id = after[i].id]
            /\ \A i, j \in added :
                  i < j => FirstArrival(d.arrivals, after[i].id)
                              < FirstArrival(d.arrivals, after[j].id)

\* C17: a log holds m2 with the content of its first arrival ("other"),
\* ahead of m1, which arrived later together with another m2.
C17_Witness ==
    \E p \in Logs :
        LET log == subagentMessagesByThread[p[1]][p[2]]
        IN  /\ Len(log) = 2
            /\ log[1] = [ToolMessageAgain EXCEPT !.id = GivenId("m2")]
            /\ log[2] = [AiMessage EXCEPT !.id = GivenId("m1")]

\* ------------------------------------------------------------------------
\* Claims about the reconstruction of tool calls
\* ------------------------------------------------------------------------

\* The orders in which the Map of the current thread can hold its logs.
KeyOrders ==
    LET keys == DOMAIN subagentMessages
    IN  {order \in [1..Cardinality(keys) -> keys] :
            \A i, j \in 1..Cardinality(keys) : order[i] = order[j] => i = j}

\* The message pools of the current thread, one for each order of its logs.
Pools == {Flat(subagentMessages, order, 1) : order \in KeyOrders}

\* The tool calls the assistant messages of a pool request, in their order.
RECURSIVE RequestsFrom(_, _)
RequestsFrom(pool, i) ==
    IF i > Len(pool)
    THEN << >>
    ELSE (IF pool[i].type = "ai" THEN pool[i].tool_calls ELSE << >>)
             \o RequestsFrom(pool, i + 1)

\* The contents of the tool messages of a pool that answer a request.
ResultsFor(pool, id) ==
    {pool[i].content : i \in {j \in 1..Len(pool) : /\ pool[j].type = "tool"
                                                  /\ pool[j].tool_call_id = id}}

\* C18: the tool calls reconstructed from a pool are those its assistant
\* messages request, one record each and none for a tool message nobody
\* requested; a record is completed when the pool holds a tool message with
\* its id as tool_call_id, wherever it stands in the pool, and pending
\* otherwise; a result whose content is a string is the result of the record.
C18_ToolCallStatus ==
    \A pool \in Pools :
        LET records == subagentToolCalls(pool)
            requests == RequestsFrom(pool, 1)
        IN  /\ Len(records) = Len(requests)
            /\ \A k \in 1..Len(records) :
                  LET results == ResultsFor(pool, requests[k].id)
                  IN  /\ records[k].id = requests[k].id
                      /\ records[k].status \in {"completed", "pending"}
                      /\ records[k].status = "completed" <=> results # {}
                      /\ (results # {} /\ \A c \in results : c.kind = "string")
                            => records[k].result \in results

\* C18: the result of tc1 arrived before the assistant message that requests
\* tc1 and tc2: the first record is completed with that result, the second
\* is pending.
C18_Witness ==
    \E pool \in Pools :
        /\ Len(pool) = 2
        /\ pool[1].type = "tool"
        /\ pool[2].type = "ai"
        /\ subagentToolCalls(pool)[1].status = "completed"
        /\ subagentToolCalls(pool)[1].result = [kind |-> "string", text |-> "other"]
        /\ subagentToolCalls(pool)[2].status = "pending"

\* Segments a namespace can hold: "tools:abc", "tools:", "abc", "tools:xyz".
Segments == { Segment(TRUE, "abc"), Segment(TRUE, ""), Segment(FALSE, "abc"),
              Segment(TRUE, "xyz") }

\* A namespace of one segment, and the same with a later segment.
Alone(first) == [defined |-> TRUE, segments |-> <<first>>]

WithLater(first) == [defined |-> TRUE, segments |-> <<first, Segment(TRUE, "xyz")>>]

\* The update events with a model-level field only, and the debug events
\* with the payload only.
ModelUpdates == {updateData \in UpdateData : updateData.messages = NoArray}

PayloadDebugs ==
    {debugData \in DebugData : debugData.messages = NoArray /\ debugData.input = NoArray}

\* The grouping key the first segment stands for: the part after "tools:"
\* when there is such a part, the whole segment otherwise.
KeyOf(first) ==
    IF first.tools /\ first.rest # ""
    THEN [tools |-> FALSE, rest |-> first.rest]
    ELSE first

\* Between two stores, only the log under key differs, and it exists in the
\* second when messages arrived.
OnlyKeyChanged(before, after, key, arrived) ==
    /\ \A k \in DOMAIN after.messages \ {key} :
          k \in DOMAIN before.messages /\ after.messages[k] = before.messages[k]
    /\ arrived => key \in DOMAIN after.messages

\* C28: an event of either kind files its messages under the key of the
\* first segment of its namespace, which is the part after "tools:" when the
\* segment has this prefix and at least one more character and the whole
\* segment otherwise, the bare "tools:" included; the same event with a
\* later segment in its namespace leaves the same store, so later segments
\* do not change the key.
C28_KeyFromFirstSegment ==
    \A first \in Segments :
        /\ \A updateData \in ModelUpdates :
              LET after == AfterUpdateEvent(currentStore, updateData, Alone(first), now)
              IN  /\ OnlyKeyChanged(currentStore, after, KeyOf(first),
                                    UpdateMessages(updateData).items # << >>)
                  /\ after = AfterUpdateEvent(currentStore, updateData, WithLater(first), now)
        /\ \A debugData \in PayloadDebugs :
              LET after == AfterDebugEvent(currentStore, debugData, Alone(first), now)
              IN  /\ OnlyKeyChanged(currentStore, after, KeyOf(first),
                                    debugData.payload.type = "tool")
                  /\ after = AfterDebugEvent(currentStore, debugData, WithLater(first), now)

\* C28: the current thread holds a log under "abc", filed by an event of the
\* namespace "tools:abc", and a log under the bare "tools:".
C28_Witness ==
    /\ Segment(FALSE, "abc") \in DOMAIN subagentMessages
    /\ Segment(TRUE, "") \in DOMAIN subagentMessages
    /\ subagentMessages[Segment(FALSE, "abc")] # << >>
    /\ subagentMessages[Segment(TRUE, "")] # << >>

\* The store after the arrivals are filed one by one under tcId.
RECURSIVE Deliver(_, _, _)
Deliver(store, tcId, arrivals) ==
    IF arrivals = << >>
    THEN store
    ELSE Deliver(Track(store, tcId, Head(arrivals).msg, Head(arrivals).id),
                 tcId, Tail(arrivals))

\* The namespace and the key of the events of C29.
Abc == Alone(Segment(TRUE, "abc"))

AbcKey == Segment(FALSE, "abc")

\* The arrivals of an update event when the top-level field is read whenever
\* the model-level field holds no message.
UpdateArrivalsOrElse(updateData, tcId, at) ==
    ArrivalsOf(IF updateData.model.defined /\ updateData.model.items # << >>
               THEN updateData.model ELSE updateData.messages,
               "msg", tcId, at)

\* C29 as claimed: an update event files the messages of data.model.messages,
\* and those of data.messages whenever the model-level field holds no
\* message.
C29_FallbackWhenNoMessages ==
    \A updateData \in UpdateData :
        AfterUpdateEvent(currentStore, updateData, Abc, now)
            = Deliver(currentStore, AbcKey, UpdateArrivalsOrElse(updateData, AbcKey, now))

\* C29 as amended: an update event files the messages of data.model.messages
\* when this field is set, empty or not, and those of data.messages only when
\* it is not set; a debug event files the messages of payload.messages, then
\* those of payload.input.messages, then the payload itself when its type is
\* "tool".
C29_ExtractionPriority ==
    /\ \A updateData \in UpdateData :
          AfterUpdateEvent(currentStore, updateData, Abc, now)
              = Deliver(currentStore, AbcKey, UpdateArrivals(updateData, AbcKey, now))
    /\ \A debugData \in DebugData :
          AfterDebugEvent(currentStore, debugData, Abc, now)
              = Deliver(currentStore, AbcKey, DebugArrivals(debugData, AbcKey, now))

\* C29: a log holds a message under an id an update event synthesized; such
\* messages arrive in data.messages only, so the top-level field was read.
C29_Witness ==
    \E tcId \in DOMAIN subagentMessages :
        \E i \in 1..Len(subagentMessages[tcId]) :
            subagentMessages[tcId][i].id.src = "msg"

\* How many arrivals carry no id of their own.
IdLess(arrivals) == Cardinality({i \in 1..Len(arrivals) : arrivals[i].msg.id = ""})

\* C30: every stored message carries an id that is not empty, and an event
\* lengthens the log it names by at least the number of messages without an
\* id that it delivers: each of them is retained under its synthesized id,
\* whatever earlier events and earlier positions of the batch delivered.
C30_SynthesizedIdsDistinct ==
    /\ \A p \in Logs :
          LET log == subagentMessagesByThread[p[1]][p[2]]
          IN  \A i \in 1..Len(log) : log[i].id # GivenId("")
    /\ \A updateData \in UpdateData :
          Len(LogOf(AfterUpdateEvent(currentStore, updateData, Abc, now).messages, AbcKey))
              >= Len(LogOf(subagentMessages, AbcKey))
                   + IdLess(UpdateArrivals(updateData, AbcKey, now))
    /\ \A debugData \in DebugData :
          Len(LogOf(AfterDebugEvent(currentStore, debugData, Abc, now).messages, AbcKey))
              >= Len(LogOf(subagentMessages, AbcKey))
                   + IdLess(DebugArrivals(debugData, AbcKey, now))

\* ------------------------------------------------------------------------
\* Claims about the session controller
\* ------------------------------------------------------------------------

\* The calls that change the state of the backend.
BackendCalls == {"stream.submit", "client.threads.updateState"}

\* C19: an operation that called the backend to change its state also
\* requested a refresh of the thread list before it returned.
C19_RefreshAfterTransition ==
    (\E i \in 1..Len(calls) : calls[i].fn \in BackendCalls)
        => \E j \in 1..Len(calls) : calls[j] = onHistoryRevalidate

\* The halt points of a submit.
HaltBefore(call) == call.options.interruptBefore = <<"tools">>

HaltAfter(call) == call.options.interruptAfter = <<"tools">>

\* C20: runSingleStep submits once, with exactly one halt point. Without a
\* checkpoint it submits the given messages and halts before the tools,
\* whatever isRerunningSubagent is; with a checkpoint it submits no input,
\* passes the checkpoint, and halts after the tools when isRerunningSubagent
\* and before them otherwise.
C20_OneHaltPoint ==
    [][\A messages \in MessageLists, checkpoint \in Checkpoints,
          isRerunningSubagent \in BOOLEAN, optimisticMessages \in OptimisticMessages :
          runSingleStep(messages, checkpoint, isRerunningSubagent, optimisticMessages)
              => /\ Len(calls') = 1
                 /\ calls'[1].fn = "stream.submit"
                 /\ HaltBefore(calls'[1]) # HaltAfter(calls'[1])
                 /\ calls'[1].options.interruptBefore \in {<< >>, <<"tools">>}
                 /\ calls'[1].options.interruptAfter \in {<< >>, <<"tools">>}
                 /\ checkpoint = Undefined
                       => /\ calls'[1].input = ValuesInput(messages)
                          /\ calls'[1].options.checkpoint = Undefined
                          /\ HaltBefore(calls'[1])
                 /\ checkpoint # Undefined
                       => /\ calls'[1].input = NoInput(Undefined)
                          /\ calls'[1].options.checkpoint = checkpoint
                          /\ HaltAfter(calls'[1]) <=> isRerunningSubagent
      ]_allVars

\* C20: runSingleStep has rerun a sub-agent from a checkpoint: its one submit
\* carries the checkpoint and halts after the tools only.
C20_Witness ==
    /\ Len(calls) = 1
    /\ calls[1].fn = "stream.submit"
    /\ calls[1].options.checkpoint = "checkpoint"
    /\ HaltAfter(calls[1])
    /\ ~HaltBefore(calls[1])

\* The one halt point of a submit for a sub-agent flag: after the tools when
\* the flag is set, before them otherwise.
HaltsFor(call, flag) ==
    /\ call.options.interruptAfter = (IF flag THEN <<"tools">> ELSE << >>)
    /\ call.options.interruptBefore = (IF flag THEN << >> ELSE <<"tools">>)

\* C21: continueStream submits no input, with subgraph streaming and exactly
\* one halt point: after the tools when hasTaskToolCall, before them
\* otherwise; runSingleStep with a checkpoint and the same flag submits with
\* the same halt point.
C21_ContinueHaltPoint ==
    [][\A flag \in BOOLEAN :
          /\ continueStream(flag)
                => /\ Len(calls') = 2
                   /\ calls'[1].fn = "stream.submit"
                   /\ calls'[2].fn # "stream.submit"
                   /\ calls'[1].input = NoInput(Undefined)
                   /\ calls'[1].options.streamSubgraphs
                   /\ HaltBefore(calls'[1]) # HaltAfter(calls'[1])
                   /\ HaltsFor(calls'[1], flag)
          /\ \A messages \in MessageLists, checkpoint \in Checkpoints \ {Undefined},
                optimisticMessages \in OptimisticMessages :
                runSingleStep(messages, checkpoint, flag, optimisticMessages)
                    => HaltsFor(calls'[1], flag)
      ]_allVars

\* C21: continueStream has resumed a run that paused on a delegation: its
\* submit has no input and no checkpoint and halts after the tools only.
C21_Witness ==
    /\ Len(calls) = 2
    /\ calls[1].fn = "stream.submit"
    /\ calls[1].input = NoInput(Undefined)
    /\ calls[1].options.checkpoint = Undefined
    /\ HaltAfter(calls[1])
    /\ ~HaltBefore(calls[1])
    /\ calls[2] = onHistoryRevalidate

\* C22: sendMessage(text) submits once, with one new human message of that
\* text as input, optimistic messages that are the previous ones followed by
\* that message, the recursion limit, subgraph streaming and no halt point,
\* and then requests one refresh of the thread list.
C22_SendMessageOnce ==
    [][\A content \in MessageContents, n \in 1..MaxUuid :
          sendMessage(content, n)
              => /\ Len(calls') = 2
                 /\ calls'[1].fn = "stream.submit"
                 /\ calls'[1].input.kind = "values"
                 /\ Len(calls'[1].input.messages) = 1
                 /\ calls'[1].input.messages[1].type = "human"
                 /\ calls'[1].input.messages[1].content = content
                 /\ \A prev \in StreamValues :
                       ApplyOptimistic(calls'[1].options.optimisticValues, prev)
                           = prev.items \o calls'[1].input.messages
                 /\ calls'[1].options.hasConfig
                 /\ calls'[1].options.config.recursion_limit = RecursionLimit
                 /\ calls'[1].options.streamSubgraphs
                 /\ calls'[1].options.interruptBefore = << >>
                 /\ calls'[1].options.interruptAfter = << >>
                 /\ calls'[2] = onHistoryRevalidate
      ]_allVars

\* C22: sendMessage("go") was the last operation.
C22_Witness ==
    /\ Len(calls) = 2
    /\ calls[1].fn = "stream.submit"
    /\ calls[1].input = ValuesInput(<<HumanMessage(uuidv4(1), "go")>>)
    /\ calls[1].options.optimisticValues.kind = "append"
    /\ calls[2] = onHistoryRevalidate

\* C23: setFiles makes no call and changes nothing while the chat has no
\* thread id; with a thread id it makes one call, the patch of the files of
\* that thread, and no submit.
C23_SetFilesOnThread ==
    [][\A files \in Files :
          setFiles(files)
              => /\ threadId = Null
                       => /\ calls' = << >>
                          /\ UNCHANGED <<questions, uuidCount, timers, threadId,
                                         subagentMessagesByThread,
                                         subagentMessageIdsByThread, now>>
                 /\ threadId # Null
                       => /\ calls' = <<UpdateState(threadId, files)>>
                          /\ calls'[1].fn = "client.threads.updateState"
                          /\ calls'[1].input.thread = threadId
      ]_allVars

\* C23: setFiles has patched the files of thread t1.
C23_Witness ==
    /\ threadId = "t1"
    /\ calls = <<UpdateState("t1", "files")>>

\* ------------------------------------------------------------------------
\* Claims about the session
\* ------------------------------------------------------------------------

\* C24: a call of stopStream leaves the logs and the seen ids of every
\* thread and the question set as they were.
C24_StopKeepsState ==
    [][(calls # <<StreamStop>> /\ calls' = <<StreamStop>>)
          => UNCHANGED <<subagentMessagesByThread, subagentMessageIdsByThread, questions>>
      ]_allVars

\* C24: stopStream was called while the thread had sub-agent messages and
\* the queue had a question; both are still there.
C24_Witness ==
    /\ calls = <<StreamStop>>
    /\ subagentMessages # EmptyMap
    /\ subagentMessageIds # {}
    /\ questions # << >>

\* ------------------------------------------------------------------------
\* Claims about the question queue, continued
\* ------------------------------------------------------------------------

\* Every question of the set is still in the set, at its position.
QuestionsKept ==
    /\ Len(questions') >= Len(questions)
    /\ \A i \in 1..Len(questions) : questions'[i].id = questions[i].id

\* next keeps every question of prev, in its place.
Kept(prev, next) ==
    /\ Len(next) >= Len(prev)
    /\ \A i \in 1..Len(prev) : next[i].id = prev[i].id

\* The updaters of addQuestion, addQuestionsFromInterrupt, answerQuestion and
\* skipQuestion keep every question of the set, whatever their arguments.
KeptBySettling ==
    /\ \A priority \in PriorityInputs :
          Kept(questions, Append(questions, NewQuestion(uuidv4(uuidCount + 1), priority)))
    /\ \A questionId \in Ids, date \in Dates :
          /\ Kept(questions, MarkSkipped(questions, questionId, date))
          /\ \A answer \in Answers :
                Kept(questions, MarkAnswered(questions, questionId, answer, date))
    /\ \A data \in Payloads :
          (data.isArray /\ uuidCount + Missing(data.questions) <= MaxUuid)
              => Kept(questions, AppendUnique(questions, NewQuestions(data.questions, uuidCount)))

\* A step that is a reset() or a clearAnswered() if it does not keep every
\* question, and that keeps the pending questions if it is a clearAnswered().
RemovingStep ==
    /\ QuestionsKept \/ reset \/ clearAnswered
    /\ clearAnswered => questions' = SelectSeq(questions, IsPending)

\* C25 as claimed: a step that is not a reset() keeps every question in the
\* set.
C25_RemovedOnlyByReset == [][QuestionsKept \/ reset]_vars

\* C25 as amended: a step that is neither a reset() nor a clearAnswered()
\* keeps every question in the set, clearAnswered() keeps every pending
\* question, and addQuestion, addQuestionsFromInterrupt, answerQuestion and
\* skipQuestion keep every question, also one that became answered or
\* skipped.
C25_RemovedOnlyByResetOrClear == []KeptBySettling /\ [][RemovingStep]_vars

\* C25: an answered and a skipped question are both still in the set.
C25_Witness ==
    \E i, j \in 1..Len(questions) :
        /\ questions[i].status = "answered"
        /\ questions[j].status = "skipped"

\* The id of an item is given by the backend.
HasBackendId(item) == item.id # Undefined /\ item.id # ""

\* The items of a batch that are new to the question set: those without an id
\* and those whose id is the id of no existing question.
NewItems(items) ==
    LET IsNew(item) ==
            ~HasBackendId(item) \/ \A i \in 1..Len(questions) : questions[i].id # item.id
    IN  SelectSeq(items, IsNew)

\* C26: in every state and for every batch the operation takes, the question
\* set that addQuestionsFromInterrupt produces keeps every existing question exactly as
\* it was and in its place, also when the batch holds an item with the id of
\* an existing question; the items with a new id are appended after the
\* existing questions in the order of the batch, each pending and under the
\* id the backend gave it.
C26_ExistingUnchanged ==
    \A data \in Payloads :
        (data.isArray /\ uuidCount + Missing(data.questions) <= MaxUuid) =>
            LET after == AppendUnique(questions, NewQuestions(data.questions, uuidCount))
                new == NewItems(data.questions)
            IN  /\ IsPrefix(questions, after)
                /\ Len(after) = Len(questions) + Len(new)
                /\ \A k \in 1..Len(new) :
                      /\ after[Len(questions) + k].status = "pending"
                      /\ HasBackendId(new[k]) => after[Len(questions) + k].id = new[k].id

\* An answered question under a backend id, and a batch the code accepts that
\* repeats this id next to an item that is new to the set.
C26_Witness ==
    \E data \in Payloads, i \in 1..Len(questions) :
        /\ data.isArray
        /\ questions[i].status = "answered"
        /\ \E k \in 1..Len(data.questions) : data.questions[k].id = questions[i].id
        /\ NewItems(data.questions) # << >>
        /\ ENABLED addQuestionsFromInterrupt(data)
\* ------------------------------------------------------------------------
\* Claims about the question card
\* ------------------------------------------------------------------------

\* C27: whenever a handler of the card invokes onAnswer, by the Answer button
\* or by the Enter key, the value it forwards is not empty: for a question
\* without options it is the text of the textarea and this text is not the
\* empty string, for a question with options it is the selected option and an
\* option is selected.
C27_ForwardsNonEmpty ==
    [][\A i \in 1..Len(cardCalls') :
          cardCalls'[i].callback = "onAnswer" =>
              /\ cardCalls'[i].id = question.id
              /\ cardCalls'[i].answer # ""
              /\ IF HasOptions
                 THEN selectedOption # Null /\ cardCalls'[i].answer = selectedOption
                 ELSE answerText # "" /\ cardCalls'[i].answer = answerText
      ]_allVars

\* C27: the card forwarded a typed text that the Answer button does not
\* accept, so the Enter key forwarded it.
C27_Witness ==
    /\ cardCalls = << OnAnswer(question.id, " ") >>
    /\ ~HasOptions
\* ------------------------------------------------------------------------
\* Claims about the demultiplexer, continued
\* ------------------------------------------------------------------------

\* The ids of the messages an event would deliver to the log "abc" that this
\* log already holds: the messages the event would drop as duplicates.
Redelivered(arrivals) == ArrivalIds(arrivals) \cap LogIds(LogOf(subagentMessages, AbcKey))

\* In every thread, the id of every stored message is among the seen ids of
\* the thread.
StoredIdsSeen ==
    \A p \in Logs :
        LogIds(subagentMessagesByThread[p[1]][p[2]]) \subseteq subagentMessageIdsByThread[p[1]]

\* After an event of either kind the seen ids hold the id of every message of
\* the event, also of those the log already held.
ArrivalsSeen ==
    /\ \A updateData \in UpdateData :
          ArrivalIds(UpdateArrivals(updateData, AbcKey, now))
              \subseteq AfterUpdateEvent(currentStore, updateData, Abc, now).ids
    /\ \A debugData \in DebugData :
          ArrivalIds(DebugArrivals(debugData, AbcKey, now))
              \subseteq AfterDebugEvent(currentStore, debugData, Abc, now).ids

\* No step takes an id out of the seen ids of a thread.
SeenIdsGrow ==
    \A thread \in DOMAIN subagentMessageIdsByThread :
        /\ thread \in DOMAIN subagentMessageIdsByThread'
        /\ subagentMessageIdsByThread[thread] \subseteq subagentMessageIdsByThread'[thread]

\* C31: in every thread the id of every stored message is among the seen ids
\* of the thread; an event records the id of each of its messages, also of a
\* message it drops as a duplicate; and no step removes an id from the seen
\* ids of a thread.
C31_SeenIds == [](StoredIdsSeen /\ ArrivalsSeen) /\ [][SeenIdsGrow]_allVars

\* C31: the log "abc" holds a message, its id is seen, and an event that
\* delivers this message again is among those that arrive.
C31_Witness ==
    /\ LogOf(subagentMessages, AbcKey) # << >>
    /\ \E updateData \in UpdateData :
          Redelivered(UpdateArrivals(updateData, AbcKey, now)) # {}
    /\ \E thread \in DOMAIN subagentMessageIdsByThread :
          thread # currentThreadId /\ subagentMessageIdsByThread[thread] # {}
\* ------------------------------------------------------------------------
\* Claims about the question queue, third part
\* ------------------------------------------------------------------------

\* The questions of qs with status pending, in the order of qs.
RECURSIVE PendingOf(_)
PendingOf(qs) ==
    IF qs = << >> THEN << >>
    ELSE IF Head(qs).status = "pending"
         THEN <<Head(qs)>> \o PendingOf(Tail(qs))
         ELSE PendingOf(Tail(qs))

\* C32: clearAnswered() leaves exactly the pending questions, each unchanged
\* and in the order they had, so that no answered and no skipped question
\* remains; a second clearAnswered() would change nothing; and canProceed()
\* answers after it what it answered before.
C32_ClearAnswered ==
    [][clearAnswered =>
          /\ questions' = PendingOf(questions)
          /\ \A i \in 1..Len(questions') : questions'[i].status = "pending"
          /\ KeepPending(questions') = questions'
          /\ canProceed' = canProceed
      ]_vars

\* C32: a question that is not pending stands before a pending blocking one,
\* so that clearAnswered() moves the pending question and canProceed() is
\* false.
C32_Witness ==
    /\ Len(questions) = 2
    /\ questions[1].status # "pending"
    /\ IsPendingBlocking(questions[2])
    /\ ENABLED clearAnswered
\* ------------------------------------------------------------------------
\* Claims about the questions panel
\* ------------------------------------------------------------------------

\* The rank of a priority: blocking < high < medium < nice_to_have.
RankOf(priority) ==
    CASE priority = "blocking" -> 0
      [] priority = "high" -> 1
      [] priority = "medium" -> 2
      [] priority = "nice_to_have" -> 3

\* a is at least as urgent as b.
AtLeastAsUrgent(a, b) ==
    \/ RankOf(a.priority) < RankOf(b.priority)
    \/ RankOf(a.priority) = RankOf(b.priority) /\ a.confidence <= b.confidence

\* C33: the current question of the panel is null exactly when no question
\* is pending; otherwise it is a pending question of the set that has the
\* least priority rank and, among the pending questions of this rank, the
\* least confidence, so that it is blocking whenever a blocking question is
\* pending.
C33_CurrentIsMostUrgent ==
    LET Pending == {i \in 1..Len(questions) : questions[i].status = "pending"}
    IN  /\ currentQuestion = NullQuestion <=> Pending = {}
        /\ currentQuestion # NullQuestion =>
              /\ \E i \in Pending : questions[i] = currentQuestion
              /\ \A j \in Pending : AtLeastAsUrgent(currentQuestion, questions[j])
              /\ (\E j \in Pending : questions[j].priority = "blocking")
                    => currentQuestion.priority = "blocking"

\* C33: a pending blocking question stands behind a pending question of
\* another priority and of less confidence, and is the current one.
C33_Witness ==
    /\ Len(questions) = 2
    /\ questions[1].status = "pending" /\ questions[1].priority # "blocking"
    /\ questions[2].status = "pending" /\ questions[2].priority = "blocking"
    /\ questions[1].confidence < questions[2].confidence
    /\ currentQuestion = questions[2]
\* ------------------------------------------------------------------------
\* Claims about the callbacks of the question queue
\* ------------------------------------------------------------------------

\* The step sets a timer for the answer given to questionId: the question set
\* holds the answer after it, and so does the mapping of the timer.
SetsTimerFor(questionId, answer) ==
    /\ \A j \in 1..Len(questions') :
          questions'[j].id = questionId =>
              /\ questions'[j].status = "answered"
              /\ questions'[j].answer = answer
    /\ \A j \in 1..Len(questions') :
          (questions'[j].id = questionId /\ answer # "") =>
              /\ questionId \in DOMAIN timers'[Len(timers')]
              /\ timers'[Len(timers')][questionId] = answer

\* C34: a step that invokes the per-answer callback invokes it once and
\* invokes nothing else, and is the answerQuestion call for the id and the
\* answer handed to the callback; a resume notification is invoked only by a
\* step of its own, the firing of a timer, which delivers the mapping that
\* timer holds; and a step that sets a timer is an answerQuestion call after
\* which the question set holds the new answer, as does the mapping of the
\* timer.
C34_AnswerBeforeResume ==
    [][/\ Len(callbacks') <= 1
       /\ (callbacks' # << >> /\ callbacks'[1].callback = "onResumeWithAnswers") =>
             /\ timers # << >>
             /\ callbacks'[1].answers = Head(timers)
             /\ timers' = Tail(timers)
             /\ questions' = questions
       /\ (callbacks' # << >> /\ callbacks'[1].callback = "onAnswer") =>
             \E date \in Dates, options \in Options :
                 answerQuestion(callbacks'[1].id, callbacks'[1].answer, date, options)
       /\ Len(timers') > Len(timers) =>
             \E questionId \in Ids, answer \in Answers :
                 /\ SetsTimerFor(questionId, answer)
                 /\ \E date \in Dates, options \in CallOptions :
                       AnswerCall(questionId, answer, date, options)
      ]_allVars

\* C34: answerQuestion has returned: the per-answer callback was invoked with
\* the answer the set now holds, and the resume notification with this answer
\* waits for its timer.
C34_Witness ==
    /\ Len(callbacks) = 1 /\ callbacks[1].callback = "onAnswer"
    /\ callbacks[1].answer # ""
    /\ timers # << >>
    /\ callbacks[1].id \in DOMAIN timers[Len(timers)]
    /\ \E j \in 1..Len(questions) :
          /\ questions[j].id = callbacks[1].id
          /\ questions[j].answer = callbacks[1].answer
\* C35: a call of answerQuestion after which some blocking question is still
\* pending schedules no resume notification: whenever a step sets a timer,
\* the set it leaves holds no pending blocking question.
C35_NoResumeWhileBlocking ==
    [][Len(timers') > Len(timers) =>
          \A i \in 1..Len(questions') : ~IsPendingBlocking(questions'[i])]_vars

\* A question has been answered while a blocking question was pending, and no
\* timer is set.
C35_Witness ==
    /\ timers = << >>
    /\ Len(questions) >= 2
    /\ questions[1].status = "answered"
    /\ \E i \in 2..Len(questions) : IsPendingBlocking(questions[i])

\* ------------------------------------------------------------------------
\* Claims about the reconstruction of tool calls, continued
\* ------------------------------------------------------------------------

\* The tool calls a log requests, and the tool calls a log holds a result of.
RequestedIn(log) == {RequestsFrom(log, 1)[k].id : k \in 1..Len(RequestsFrom(log, 1))}

AnsweredIn(log) ==
    {log[i].tool_call_id : i \in {j \in 1..Len(log) : /\ log[j].type = "tool"
                                                      /\ log[j].tool_call_id # ""}}

\* C36: the tool-call records of a subagent card are computed from the logs
\* of all tool-call ids of the current thread together, whatever the card:
\* every message of every log is in the pool and the pool holds nothing
\* else; and a request stored under one tool-call id is completed by a result
\* stored under any tool-call id.
C36_RecordsFromAllLogs ==
    \A pool \in Pools :
        LET records == subagentToolCalls(pool)
            keys == DOMAIN subagentMessages
        IN  /\ \A key \in keys : \A i \in 1..Len(subagentMessages[key]) :
                  \E j \in 1..Len(pool) : pool[j] = subagentMessages[key][i]
            /\ \A j \in 1..Len(pool) :
                  \E key \in keys : \E i \in 1..Len(subagentMessages[key]) :
                      pool[j] = subagentMessages[key][i]
            /\ \A requesting, answering \in keys :
                  \A id \in RequestedIn(subagentMessages[requesting])
                               \cap AnsweredIn(subagentMessages[answering]) :
                      \E r \in 1..Len(records) : /\ records[r].id = id
                                                 /\ records[r].status = "completed"

\* C36: a log requests a tool call it holds no result of, another log holds
\* the result, and the record of the card is completed.
C36_Witness ==
    \E requesting, answering \in DOMAIN subagentMessages :
        \E id \in RequestedIn(subagentMessages[requesting])
                     \cap AnsweredIn(subagentMessages[answering]) :
            /\ requesting # answering
            /\ id \notin AnsweredIn(subagentMessages[requesting])
            /\ \A pool \in Pools :
                  \E r \in 1..Len(subagentToolCalls(pool)) :
                      /\ subagentToolCalls(pool)[r].id = id
                      /\ subagentToolCalls(pool)[r].status = "completed"
            /\ \A r \in 1..Len(subagentToolCalls(subagentMessages[requesting])) :
                  subagentToolCalls(subagentMessages[requesting])[r].id = id
                      => subagentToolCalls(subagentMessages[requesting])[r].status = "pending"

\* ------------------------------------------------------------------------
\* Claims about the thread without an id
\* ------------------------------------------------------------------------

\* C37: the messages stored for one conversation before it had a thread id
\* are not in the store a later conversation without a thread id sees: when
\* the chat leaves a thread for the thread without an id, the store of the
\* current thread is empty.
C37_FreshStoreWithoutId ==
    [][(threadId # Null /\ threadId' = Null)
          => /\ subagentMessagesByThread'["__new__"] = EmptyMap
             /\ subagentMessageIdsByThread'["__new__"] = {}]_allVars

\* ------------------------------------------------------------------------
\* Claims about the question queue, fourth part
\* ------------------------------------------------------------------------

\* C38: when a resume notification is delivered, every id of its mapping is
\* the id of a question of the set that is answered, with the answer the
\* mapping gives: this holds of the notification that is delivered next, in
\* every state with a timer set.
C38_ResumeMatchesSet ==
    timers # << >> =>
        \A id \in DOMAIN Head(timers) :
            \E i \in 1..Len(questions) :
                /\ questions[i].id = id
                /\ questions[i].status = "answered"
                /\ questions[i].answer = Head(timers)[id]

\* ------------------------------------------------------------------------
\* Claims about the callbacks of the question queue, continued
\* ------------------------------------------------------------------------

\* No question of the set has the id.
NotInSet(questionId) == \A i \in 1..Len(questions) : questions[i].id # questionId

\* C39: answerQuestion or skipQuestion called with an id that is not in the
\* set leaves the set as it is, invokes no callback and sets no timer.
C39_UnknownIdNoEffect ==
    [][\A questionId \in {id \in Ids : NotInSet(id)} :
          ((\E answer \in Answers, date \in Dates, options \in CallOptions :
                AnswerCall(questionId, answer, date, options))
             \/ (\E date \in Dates : SkipCall(questionId, date)))
          => /\ questions' = questions
             /\ callbacks' = << >>
             /\ timers' = timers]_allVars

\* ------------------------------------------------------------------------
\* Claims about the question card, continued
\* ------------------------------------------------------------------------

\* C40: every pending question a card shows can be answered through the
\* card: with option buttons, by the click on an option and then on Answer;
\* with the textarea, by a text typed and then submitted, for which
\* handleSubmitAnswer finds an answer to forward.
C40_CanBeAnswered ==
    question.status = "pending" =>
        IF OptionButtons
        THEN \E i \in 1..Len(question.options.items) :
                 IsTruthy(question.options.items[i].id)
        ELSE \E text \in Texts :
                 IsTruthy(IF HasOptions THEN selectedOption ELSE text)

====
